---- MODULE Spec2Model ----
(***************************************************************************)
(* node-sql-wasm: the Database class (src/unnamed/part_002, the api        *)
(* module) and the Statement class (src/src/Statement.js) over the SQLite  *)
(* C API and the Emscripten runtime.  The engine and the runtime are       *)
(* external collaborators: they are modelled by what their documented      *)
(* interface does (handles, return codes, error text, function table,      *)
(* heap, file system).  Every method of the two classes is a pure operator *)
(* from a world record to a world record, composed exactly as the method   *)
(* composes its calls; an exception in flight is the field err.            *)
(***************************************************************************)
EXTENDS Integers, Sequences, FiniteSets, TLC

(* ------------------------------ bounds -------------------------------- *)
\* Database objects the program constructs.
NConn == 2
\* Statement objects handed to the caller by Database.prepare.
MaxStmt == 2
\* Rows the table of the database image can hold.
MaxRows == 2
\* Statements in one SQL text given to exec or run.
MaxText == 2
\* Callables created for create_function.
MaxReg == 3
\* The cursor of a Statement object that getNumber() advances.
MaxPos == 3

\* Null pointer
NULL == 0

Conns == 1 .. NConn
\* Statement object 0 is the local `stmt` of Database.run / exec / each.
TmpStmt == NULL
StmtIds == 0 .. MaxStmt
UserStmts == 1 .. MaxStmt
DbHandles == 1 .. (NConn + 1)
StmtHandles == 1 .. (MaxStmt + 1)
Names == {"f", "g"}
\* The function table holds a slot for every name of every Database object;
\* the heap holds two buffers for every statement handle.
Slots == 1 .. (NConn * Cardinality(Names))
Addrs == 1 .. (2 * (MaxStmt + 1))
\* Every Database object has a file of its own (/dbfile_<random>).
Files == Conns

(* --------------------------- SQL statements --------------------------- *)
\* The engine is a black box: a statement of an SQL text is known by what
\* the engine does with it.
\*   select     SELECT a FROM t          one row per row of t, in order
\*   param      SELECT ?                 one row: the value of its parameter
\*   param2     SELECT ifnull(?, ?)      one row: its first parameter, or the
\*                                       second when the first is NULL
\*   named      SELECT ifnull(:a, :b)    as param2, its parameters named
\*   insert     INSERT INTO t ...        adds a row, returns no row
\*   insertp    INSERT INTO t VALUES (?, ?)  adds a row holding its parameters;
\*                                       its step fails when the first is NULL
\*                                       (NOT NULL column)
\*   delete     DELETE FROM t            removes every row, returns no row
\*   begin / commit / rollback           transaction control
\*   callf0     SELECT f()               one row: the result of f()
\*   callf1     SELECT f(1)              one row: the result of f(1)
\*   constraint a statement whose step fails (UNIQUE constraint failed)
\*   syntax     text the engine cannot compile
\*   empty      white space or a comment: compiles to no statement
Kinds ==
    {"select", "param", "param2", "named", "insert", "insertp", "delete", "begin", "commit",
     "rollback",
     "callf0", "callf1", "constraint", "syntax", "empty"}

NParams(kind) ==
    IF kind = "param" THEN 1 ELSE IF kind \in {"param2", "named", "insertp"} THEN 2 ELSE 0

\* Values, of the host as of the engine: a type tag and a content.
Val(t, v) == [t |-> t, v |-> v]

NullVal == Val("null", 0)

(* ------------------------------- state -------------------------------- *)
VARIABLES
    database,   \* Database objects: [constructed, db, statements, functions, filename]
    statement,  \* Statement objects: [created, stmt, db, pos, allocatedmem]
    engine,     \* SQLite: [dbs: handle -> connection, stmts: handle -> statement]
    runtime,    \* Emscripten: [files, table (function pointers), heap]
    last,       \* the last public call: [op, c, s, arg, err, ret, tr, pre]
    closed,     \* [conns: the Database objects on which close() has completed,
                \*  stmts: the Statement objects their callers held by then]
    nextReg,    \* callables created so far
    exported    \* the bytes returned by the last successful export()

vars == <<database, statement, engine, runtime, last, closed, nextReg, exported>>

(* ------------------------------ helpers ------------------------------- *)
MapPut(f, k, v) == [x \in (DOMAIN f) \cup {k} |-> IF x = k THEN v ELSE f[x]]

MapDel(f, k) == [x \in (DOMAIN f) \ {k} |-> f[x]]

EmptyMap == [x \in {} |-> NULL]

Min(S) == CHOOSE x \in S : \A y \in S : x <= y

\* The elements of a finite set of integers in ascending order (the order of
\* Object.values over integer-like keys).
RECURSIVE Ascending(_)
Ascending(S) ==
    IF S = {} THEN <<>> ELSE <<Min(S)>> \o Ascending(S \ {Min(S)})

\* Object.values of a map keyed by handle.
ObjectValues(f) == [i \in 1 .. Cardinality(DOMAIN f) |-> f[Ascending(DOMAIN f)[i]]]

NoErr == ""

\* A primitive call enters the trace of the public call in progress: the
\* primitive, the handle (slot, address, file) it was given, the handle it
\* produced.
CallOut(w, prim, h, out) == [w EXCEPT !.tr = Append(@, [f |-> prim, h |-> h, out |-> out])]

Call(w, prim, h) == CallOut(w, prim, h, NULL)

Throw(w, e) == [w EXCEPT !.err = e]

Return(w, v) == [w EXCEPT !.ret = v]

Failed(w) == w.err # NoErr

(* --------------------------- the file system -------------------------- *)
NoFile == [exists |-> FALSE, bytes |-> 0]

\* The content of a file is the number of rows of the database image it
\* holds; NotADatabase stands for bytes that are no database image.
NotADatabase == -1

\* FS.unlink(path): ErrnoError when there is no such file.
FS_unlink(w, f) ==
    IF ~w.runtime.files[f].exists
    THEN Throw(Call(w, "FS.unlink", f), "ErrnoError")
    ELSE [Call(w, "FS.unlink", f) EXCEPT !.runtime.files[f] = NoFile]

\* FS.readFile(path): the bytes in w.ret; ErrnoError when there is no such file.
FS_readFile(w, f) ==
    IF ~w.runtime.files[f].exists
    THEN Throw(Call(w, "FS.readFile", f), "ErrnoError")
    ELSE Return(Call(w, "FS.readFile", f), w.runtime.files[f].bytes)

\* FS.createDataFile("/", path, data): ErrnoError when the file exists.
FS_createDataFile(w, f, data) ==
    IF w.runtime.files[f].exists
    THEN Throw(Call(w, "FS.createDataFile", f), "ErrnoError")
    ELSE [Call(w, "FS.createDataFile", f) EXCEPT
             !.runtime.files[f] = [exists |-> TRUE, bytes |-> data]]

(* ------------------------ the function table -------------------------- *)
FreeSlots(w) == {s \in Slots : w.runtime.table[s] = NULL}

\* addFunction(wrapped_func, "viii"): the first free slot of the reserved
\* function pointers now holds the wrapper of callable reg; the slot in w.ret.
addFunction(w, reg) ==
    LET s == Min(FreeSlots(w))
    IN  IF FreeSlots(w) = {}
        THEN Throw(Call(w, "addFunction", NULL), "Finished up all reserved function pointers")
        ELSE Return([CallOut(w, "addFunction", NULL, s) EXCEPT !.runtime.table[s] = reg], s)

\* removeFunction(slot): the slot is released.
removeFunction(w, s) ==
    [Call(w, "removeFunction", s) EXCEPT !.runtime.table[s] = NULL]

(* ------------------------------ the heap ------------------------------ *)
FreeAddrs(w) == Addrs \ w.runtime.heap

\* allocate(bytes, "i8", ALLOC_NORMAL): the address in w.ret.
allocate(w) ==
    LET a == Min(FreeAddrs(w))
    IN  Return([CallOut(w, "allocate", NULL, a) EXCEPT !.runtime.heap = @ \cup {a}], a)

\* _free(address)
free_(w, a) == [Call(w, "_free", a) EXCEPT !.runtime.heap = @ \ {a}]

(* ----------------------------- the engine ----------------------------- *)
FreeDbRec ==
    [state |-> "free", file |-> NULL, inTxn |-> FALSE, txn |-> 0,
     funcs |-> {}, ext |-> FALSE, errmsg |-> "not an error", changes |-> 0]

FreeStmtRec ==
    [live |-> FALSE, db |-> NULL, kind |-> "empty", state |-> "ready",
     nrow |-> 0, row |-> NullVal, bound |-> <<>>, rc |-> "SQLITE_OK"]

IsOpenDb(w, h) == h \in DbHandles /\ w.engine.dbs[h].state = "open"

IsLiveStmt(w, sh) == sh \in StmtHandles /\ w.engine.stmts[sh].live

FreeDbHandles(w) == {h \in DbHandles : w.engine.dbs[h].state = "free"}

FreeStmtHandles(w) == {sh \in StmtHandles : ~w.engine.stmts[sh].live}

LiveStmtsOf(w, h) == {sh \in StmtHandles : w.engine.stmts[sh].live /\ w.engine.stmts[sh].db = h}

\* Statements of the connection that were stepped to a row and not reset.
ActiveStmtsOf(w, h) == {sh \in LiveStmtsOf(w, h) : w.engine.stmts[sh].state = "row"}

\* The number of rows of t the connection sees: its own uncommitted
\* transaction, or the database file.
View(w, h) ==
    IF w.engine.dbs[h].inTxn THEN w.engine.dbs[h].txn
    ELSE w.runtime.files[w.engine.dbs[h].file].bytes

\* A primitive returns: its result code in w.rc, its out-parameter in w.out.
Rc(w, rc, out) == [w EXCEPT !.rc = rc, !.out = out]

\* A primitive fails on connection h: the code, and the text sqlite3_errmsg
\* will give.
Fail(w, h, rc, msg) ==
    IF h \in DbHandles /\ w.engine.dbs[h].state # "free"
    THEN [w EXCEPT !.rc = rc, !.out = NULL, !.engine.dbs[h].errmsg = msg]
    ELSE [w EXCEPT !.rc = rc, !.out = NULL]

sqlite3_errmsg(w, h) ==
    IF h \in DbHandles /\ w.engine.dbs[h].state # "free"
    THEN w.engine.dbs[h].errmsg
    ELSE "out of memory"

\* sqlite3_open(filename, &db): creates the file when there is none.
sqlite3_open(w, f) ==
    IF FreeDbHandles(w) = {}
    THEN Rc(CallOut(w, "sqlite3_open", f, NULL), "SQLITE_NOMEM", NULL)
    ELSE LET h == Min(FreeDbHandles(w))
             w1 == CallOut(w, "sqlite3_open", f, h)
             w2 == IF w1.runtime.files[f].exists THEN w1
                   ELSE [w1 EXCEPT !.runtime.files[f] = [exists |-> TRUE, bytes |-> 0]]
         IN  Rc([w2 EXCEPT !.engine.dbs[h] = [FreeDbRec EXCEPT !.state = "open", !.file = f]],
                "SQLITE_OK", h)

\* sqlite3_close_v2(db): a null pointer is a harmless no-op; an open
\* transaction is rolled back; the connection's functions go with it; with
\* statements not yet finalized the connection stays allocated as a zombie.
sqlite3_close_v2(w, h) ==
    LET w1 == Call(w, "sqlite3_close_v2", h)
    IN  IF ~IsOpenDb(w1, h) THEN Rc(w1, "SQLITE_OK", NULL)
        ELSE Rc([w1 EXCEPT !.engine.dbs[h] =
                    IF LiveStmtsOf(w1, h) = {} THEN FreeDbRec
                    ELSE [FreeDbRec EXCEPT !.state = "zombie"]],
                "SQLITE_OK", NULL)

\* registerExtensionFunctions(db): the built-in extension functions.
registerExtensionFunctions(w, h) ==
    IF IsOpenDb(w, h)
    THEN [Call(w, "registerExtensionFunctions", h) EXCEPT !.engine.dbs[h].ext = TRUE]
    ELSE Call(w, "registerExtensionFunctions", h)

\* The function (name, nArg) of connection h, as a set of at most one entry.
FuncEntry(w, h, name, nArg) ==
    {e \in w.engine.dbs[h].funcs : e.name = name /\ e.nArg = nArg}

\* sqlite3_create_function_v2(db, name, nArg, SQLITE_UTF8, 0, xFunc, 0, 0, 0):
\* functions are keyed by name and argument count; replacing an entry while a
\* statement of the connection is active fails with SQLITE_BUSY and keeps the
\* old entry.  On a pointer that is no open connection the call reads memory
\* that is no connection: w.ub is what it then returns.
sqlite3_create_function_v2(w, h, name, nArg, slot) ==
    LET w1 == Call(w, "sqlite3_create_function_v2", h)
        reg == w1.runtime.table[slot]
        old == FuncEntry(w1, h, name, nArg)
    IN  IF ~IsOpenDb(w1, h) THEN Rc(w1, w1.ub, NULL)
        ELSE IF old # {} /\ ActiveStmtsOf(w1, h) # {}
        THEN Fail(w1, h, "SQLITE_BUSY",
                  "unable to delete/modify user-function due to active statements")
        ELSE Rc([w1 EXCEPT !.engine.dbs[h].funcs =
                    (@ \ old) \cup {[name |-> name, nArg |-> nArg, slot |-> slot, reg |-> reg]}],
                "SQLITE_OK", NULL)

\* sqlite3_changes(db): the rows the most recently completed INSERT, UPDATE
\* or DELETE of the connection changed, 0 when it ran none.  The engine
\* reads the counter without a test of the pointer: on a pointer that is no
\* connection the oracle w.ub decides what it reads.
sqlite3_changes(w, h) ==
    LET w1 == Call(w, "sqlite3_changes", h)
    IN  IF IsOpenDb(w1, h) THEN Return(w1, w1.engine.dbs[h].changes)
        ELSE Return(w1, IF w1.ub = "SQLITE_OK" THEN 0 ELSE 1)

\* What a statement that returns no row does to the database when it runs.
Effect(w, h, kind) ==
    LET d == w.engine.dbs[h]
    IN  CASE kind = "insert" ->
                 IF d.inTxn
                 THEN Rc([w EXCEPT !.engine.dbs[h].txn = @ + 1,
                                   !.engine.dbs[h].changes = 1], "SQLITE_DONE", NULL)
                 ELSE Rc([w EXCEPT !.runtime.files[d.file].bytes = @ + 1,
                                   !.engine.dbs[h].changes = 1], "SQLITE_DONE", NULL)
          [] kind = "delete" ->
                 IF d.inTxn
                 THEN Rc([w EXCEPT !.engine.dbs[h].txn = 0,
                                   !.engine.dbs[h].changes = d.txn], "SQLITE_DONE", NULL)
                 ELSE Rc([w EXCEPT !.runtime.files[d.file].bytes = 0,
                                   !.engine.dbs[h].changes = w.runtime.files[d.file].bytes],
                         "SQLITE_DONE", NULL)
          [] kind = "begin" ->
                 IF d.inTxn
                 THEN Fail(w, h, "SQLITE_ERROR", "cannot start a transaction within a transaction")
                 ELSE Rc([w EXCEPT !.engine.dbs[h].inTxn = TRUE,
                                   !.engine.dbs[h].txn = w.runtime.files[d.file].bytes],
                         "SQLITE_DONE", NULL)
          [] kind = "commit" ->
                 IF ~d.inTxn
                 THEN Fail(w, h, "SQLITE_ERROR", "cannot commit - no transaction is active")
                 ELSE Rc([w EXCEPT !.engine.dbs[h].inTxn = FALSE,
                                   !.engine.dbs[h].txn = 0,
                                   !.runtime.files[d.file].bytes = d.txn],
                         "SQLITE_DONE", NULL)
          [] kind = "rollback" ->
                 IF ~d.inTxn
                 THEN Fail(w, h, "SQLITE_ERROR", "cannot rollback - no transaction is active")
                 ELSE Rc([w EXCEPT !.engine.dbs[h].inTxn = FALSE, !.engine.dbs[h].txn = 0],
                         "SQLITE_DONE", NULL)
          [] OTHER -> Fail(w, h, "SQLITE_CONSTRAINT", "UNIQUE constraint failed")

FuncArgs(kind) == IF kind = "callf1" THEN 1 ELSE 0

\* The host callables of the program, by number.  Callable n <= Special is
\* the n-th closure made for create_function and returns the number n it
\* closes over; callable Special + i does what Outcomes[i] tells: it returns
\* a value, or throws one.
Special == 100

Returns(v) == [t |-> "return", v |-> v]

Throws(e) == [t |-> "throw", v |-> e]

Outcomes ==
    <<Returns(Val("boolean", 1)), Returns(Val("boolean", 0)),
      Returns(Val("number", -1)), Returns(Val("fraction", 0)), Returns(Val("string", 1)),
      Returns(Val("blob", 1)), Returns(NullVal),
      Returns(Val("object", 1)), Returns(Val("undefined", 0)),
      Throws("internal exception")>>

Outcome(reg) == IF reg > Special THEN Outcomes[reg - Special] ELSE Returns(Val("number", reg))

\* sqlite3_result_int / _double / _text / _blob / _null (cx, value): the
\* value is the result of the function call of context cx.
sqlite3_result(w, prim, cx, val) == Rc(CallOut(w, prim, cx, val), "SQLITE_ROW", val)

\* sqlite3_result_error(cx, msg, -1): the function call fails, and with it
\* the step, with SQLITE_ERROR and the text msg.
sqlite3_result_error(w, cx, msg) ==
    Fail(CallOut(w, "sqlite3_result_error", cx, Val("error", msg)), cx, "SQLITE_ERROR", msg)

\* The switch of wrapped_func over typeof result that treats an object
\* without a length as it treats undefined.
setResultLoose(w, cx, result) ==
    LET afterFree(w3) == w3
        afterResult(blobptr, w2) == afterFree(free_(w2, blobptr))
        afterAllocate(w1) ==
            afterResult(w1.ret, sqlite3_result(w1, "sqlite3_result_blob", cx,
                                               Val("blob", result.v)))
    IN  CASE result.t = "boolean" ->
                 sqlite3_result(w, "sqlite3_result_int", cx, Val("integer", result.v))
          [] result.t \in {"number", "bignumber", "fraction"} ->
                 sqlite3_result(w, "sqlite3_result_double", cx, Val("float", result))
          [] result.t = "string" ->
                 sqlite3_result(w, "sqlite3_result_text", cx, Val("text", result.v))
          [] result.t = "null" -> sqlite3_result(w, "sqlite3_result_null", cx, NullVal)
          [] result.t = "blob" -> afterAllocate(allocate(w))
          [] OTHER -> sqlite3_result(w, "sqlite3_result_null", cx, NullVal)

\* The switch of wrapped_func over typeof result: one result for the value
\* the callable returned.
setResult(w, cx, result) ==
    LET afterFree(w3) == w3
        afterResult(blobptr, w2) == afterFree(free_(w2, blobptr))
        afterAllocate(w1) ==
            afterResult(w1.ret, sqlite3_result(w1, "sqlite3_result_blob", cx,
                                               Val("blob", result.v)))
    IN  CASE result.t = "boolean" ->
                 sqlite3_result(w, "sqlite3_result_int", cx, Val("integer", result.v))
          [] result.t \in {"number", "bignumber", "fraction"} ->
                 sqlite3_result(w, "sqlite3_result_double", cx, Val("float", result))
          [] result.t = "string" ->
                 sqlite3_result(w, "sqlite3_result_text", cx, Val("text", result.v))
          [] result.t = "null" -> sqlite3_result(w, "sqlite3_result_null", cx, NullVal)
          [] result.t = "blob" -> afterAllocate(allocate(w))
          [] result.t = "object" ->
                 sqlite3_result_error(w, cx,
                     "Wrong API use : tried to return a value of an unknown type")
          [] OTHER -> sqlite3_result(w, "sqlite3_result_null", cx, NullVal)

\* wrapped_func without its try / catch: what the callable throws unwinds
\* through the engine.
wrappedNoCatch(w, cx, reg) ==
    IF Outcome(reg).t = "throw" THEN Throw(w, Outcome(reg).v)
    ELSE setResult(w, cx, Outcome(reg).v)

\* wrapped_func(cx, argc, argv) of create_function, around callable reg: the
\* callable is applied to the decoded arguments; what it returns becomes the
\* result, what it throws becomes an error result.
wrapped_func(w, cx, reg) ==
    IF Outcome(reg).t = "throw" THEN sqlite3_result_error(w, cx, Outcome(reg).v)
    ELSE setResult(w, cx, Outcome(reg).v)

\* The engine calls the function f of a callf statement through the slot of
\* its entry: the wrapper now in that slot runs with the connection as its
\* context, and the result it set is the row (w.out, code SQLITE_ROW) or the
\* error of the step.  A released slot holds no function: the call through
\* it traps, and the trap unwinds out of the engine.
Dispatch(w, h, kind) ==
    LET es == FuncEntry(w, h, "f", FuncArgs(kind))
        e == CHOOSE x \in es : TRUE
        reg == w.runtime.table[e.slot]
    IN  IF es = {} THEN Fail(w, h, "SQLITE_ERROR", "no such function: f")
        ELSE IF reg = NULL THEN Throw(Call(w, "call_indirect", e.slot), "RuntimeError")
        ELSE wrapped_func(Call(w, "call_indirect", e.slot), h, reg)

\* sqlite3_prepare_v2(db, sql, -1, &stmt, &tail) on the next statement of a
\* text: the handle in w.out, null for an empty statement or on an error.
sqlite3_prepare_v2(w, h, kind) ==
    IF ~IsOpenDb(w, h)
    THEN Fail(Call(w, "sqlite3_prepare_v2", h), h, "SQLITE_MISUSE",
              "bad parameter or other API misuse")
    ELSE IF kind = "syntax"
    THEN Fail(Call(w, "sqlite3_prepare_v2", h), h, "SQLITE_ERROR", "syntax error")
    ELSE IF kind = "empty"
    THEN Rc(Call(w, "sqlite3_prepare_v2", h), "SQLITE_OK", NULL)
    ELSE IF w.runtime.files[w.engine.dbs[h].file].bytes = NotADatabase
    THEN Fail(Call(w, "sqlite3_prepare_v2", h), h, "SQLITE_NOTADB", "file is not a database")
    ELSE IF kind \in {"callf0", "callf1"} /\ FuncEntry(w, h, "f", FuncArgs(kind)) = {}
    THEN Fail(Call(w, "sqlite3_prepare_v2", h), h, "SQLITE_ERROR", "no such function: f")
    ELSE IF FreeStmtHandles(w) = {}
    THEN Fail(Call(w, "sqlite3_prepare_v2", h), h, "SQLITE_NOMEM", "out of memory")
    ELSE LET sh == Min(FreeStmtHandles(w))
             w1 == CallOut(w, "sqlite3_prepare_v2", h, sh)
         IN  Rc([w1 EXCEPT !.engine.stmts[sh] =
                    [FreeStmtRec EXCEPT !.live = TRUE, !.db = h, !.kind = kind,
                                        !.bound = [i \in 1 .. NParams(kind) |-> NullVal]]],
                "SQLITE_OK", sh)

\* sqlite3_step(stmt): SQLITE_ROW with the row in the statement, SQLITE_DONE,
\* or an error code.  A statement that was run to its end starts again.  The
\* trace keeps the bindings the step reads.
sqlite3_step(w, sh) ==
    LET w1 == CallOut(w, "sqlite3_step", sh,
                      IF IsLiveStmt(w, sh) THEN w.engine.stmts[sh].bound ELSE <<>>)
        st == w1.engine.stmts[sh]
        h == st.db
        row(v) == Rc([w1 EXCEPT !.engine.stmts[sh].state = "row",
                                !.engine.stmts[sh].nrow = st.nrow + 1,
                                !.engine.stmts[sh].row = v,
                                !.engine.stmts[sh].rc = "SQLITE_OK"],
                     "SQLITE_ROW", NULL)
        done(x) == Rc([x EXCEPT !.engine.stmts[sh].state = "done",
                                !.engine.stmts[sh].nrow = 0,
                                !.engine.stmts[sh].row = NullVal,
                                !.engine.stmts[sh].rc = "SQLITE_OK"],
                      "SQLITE_DONE", NULL)
        error(x) == [x EXCEPT !.engine.stmts[sh].state = "ready",
                              !.engine.stmts[sh].nrow = 0,
                              !.engine.stmts[sh].row = NullVal,
                              !.engine.stmts[sh].rc = x.rc]
        called(w2) ==
            IF Failed(w2) THEN w2
            ELSE IF w2.rc = "SQLITE_ROW" THEN row(w2.out)
            ELSE error(w2)
        ran(w2) == IF w2.rc = "SQLITE_DONE" THEN done(w2) ELSE error(w2)
    IN  IF ~IsLiveStmt(w1, sh) THEN Rc(w1, "SQLITE_MISUSE", NULL)
        ELSE CASE st.kind = "select" ->
                      IF st.nrow < View(w1, h) THEN row(Val("integer", st.nrow + 1))
                      ELSE done(w1)
               [] st.kind = "param" ->
                      IF st.nrow = 0 THEN row(st.bound[1]) ELSE done(w1)
               [] st.kind \in {"param2", "named"} ->
                      IF st.nrow > 0 THEN done(w1)
                      ELSE row(IF st.bound[1].t # "null" THEN st.bound[1] ELSE st.bound[2])
               [] st.kind \in {"callf0", "callf1"} ->
                      IF st.nrow > 0 THEN done(w1) ELSE called(Dispatch(w1, h, st.kind))
               [] st.kind = "insertp" ->
                      IF st.bound[1].t = "null"
                      THEN error(Fail(w1, h, "SQLITE_CONSTRAINT", "NOT NULL constraint failed"))
                      ELSE ran(Effect(w1, h, "insert"))
               [] OTHER -> ran(Effect(w1, h, st.kind))

\* sqlite3_reset(stmt): back to the start; the code of the last step when it
\* failed.  A null pointer is a harmless no-op.
sqlite3_reset(w, sh) ==
    LET w1 == Call(w, "sqlite3_reset", sh)
    IN  IF ~IsLiveStmt(w1, sh) THEN Rc(w1, "SQLITE_OK", NULL)
        ELSE Rc([w1 EXCEPT !.engine.stmts[sh].state = "ready",
                           !.engine.stmts[sh].nrow = 0,
                           !.engine.stmts[sh].row = NullVal,
                           !.engine.stmts[sh].rc = "SQLITE_OK"],
                w1.engine.stmts[sh].rc, NULL)

\* sqlite3_clear_bindings(stmt): every parameter is NULL again.  It reads the
\* statement without a null check: on a null pointer w.ub is what it returns.
sqlite3_clear_bindings(w, sh) ==
    LET w1 == Call(w, "sqlite3_clear_bindings", sh)
    IN  IF ~IsLiveStmt(w1, sh) THEN Rc(w1, w1.ub, NULL)
        ELSE Rc([w1 EXCEPT !.engine.stmts[sh].bound =
                    [i \in DOMAIN @ |-> NullVal]],
                "SQLITE_OK", NULL)

\* sqlite3_finalize(stmt): the handle is released; the code of the last step
\* when it failed.  A null pointer is a harmless no-op.  The last statement
\* of a zombie connection releases the connection.
sqlite3_finalize(w, sh) ==
    LET w1 == Call(w, "sqlite3_finalize", sh)
        st == w1.engine.stmts[sh]
        w2 == [w1 EXCEPT !.engine.stmts[sh] = FreeStmtRec]
        w3 == IF st.db \in DbHandles /\ w2.engine.dbs[st.db].state = "zombie"
                 /\ LiveStmtsOf(w2, st.db) = {}
              THEN [w2 EXCEPT !.engine.dbs[st.db] = FreeDbRec]
              ELSE w2
    IN  IF ~IsLiveStmt(w1, sh) THEN Rc(w1, "SQLITE_OK", NULL)
        ELSE Rc(w3, st.rc, NULL)

\* sqlite3_bind_int / _double / _text / _blob (stmt, pos, value).
sqlite3_bind(w, prim, sh, pos, val) ==
    LET w1 == Call(w, prim, sh)
        st == w1.engine.stmts[sh]
    IN  IF ~IsLiveStmt(w1, sh) THEN Rc(w1, "SQLITE_MISUSE", NULL)
        ELSE IF st.state # "ready"
        THEN Fail(w1, st.db, "SQLITE_MISUSE", "bad parameter or other API misuse")
        ELSE IF pos < 1 \/ pos > Len(st.bound)
        THEN Fail(w1, st.db, "SQLITE_RANGE", "column index out of range")
        ELSE Rc([w1 EXCEPT !.engine.stmts[sh].bound[pos] = val], "SQLITE_OK", NULL)

\* sqlite3_bind_parameter_index(stmt, name): the index of the parameter of
\* that name, 0 when the statement has none of that name and for a null
\* pointer.
sqlite3_bind_parameter_index(w, sh, name) ==
    LET num == IF IsLiveStmt(w, sh) /\ w.engine.stmts[sh].kind = "named"
               THEN (IF name = ":a" THEN 1 ELSE IF name = ":b" THEN 2 ELSE 0)
               ELSE 0
    IN  Rc(CallOut(w, "sqlite3_bind_parameter_index", sh, num), "SQLITE_OK", num)

\* sqlite3_data_count(stmt): the columns of the current row; 0 without a row
\* and for a null pointer.  Every statement of the model has one column.
sqlite3_data_count(w, sh) ==
    Rc(Call(w, "sqlite3_data_count", sh),
       "SQLITE_OK",
       IF IsLiveStmt(w, sh) /\ w.engine.stmts[sh].state = "row" THEN 1 ELSE 0)

\* sqlite3_column_name(stmt, i)
sqlite3_column_name(w, sh, i) == Rc(Call(w, "sqlite3_column_name", sh), "SQLITE_OK", "a")

\* sqlite3_column_type(stmt, i), and the accessor of that type.
sqlite3_column(w, sh, i) ==
    Rc(Call(w, "sqlite3_column", sh), "SQLITE_OK", w.engine.stmts[sh].row)

\* sqlite3_column_double(stmt, i): column i of the current row as a double;
\* 0 without a row, for a column the row does not have, for a value that is
\* no number and for a null pointer.
sqlite3_column_double(w, sh, i) ==
    Rc(Call(w, "sqlite3_column_double", sh), "SQLITE_OK",
       IF /\ IsLiveStmt(w, sh)
          /\ w.engine.stmts[sh].state = "row"
          /\ i = 0
          /\ w.engine.stmts[sh].row.t \in {"integer", "float"}
       THEN w.engine.stmts[sh].row
       ELSE [t |-> "integer", v |-> 0])

\* sqlite3_exec(db, sql, 0, 0, 0): runs the statements of the text in order,
\* rows discarded, and stops at the first that fails.
RECURSIVE ExecText(_, _, _, _)
ExecText(w, h, text, i) ==
    IF i > Len(text) THEN Rc(w, "SQLITE_OK", NULL)
    ELSE LET k == text[i]
             called(w1) ==
                 IF Failed(w1) \/ w1.rc # "SQLITE_ROW" THEN w1
                 ELSE ExecText(w1, h, text, i + 1)
             ran(w1) == IF w1.rc # "SQLITE_DONE" THEN w1 ELSE ExecText(w1, h, text, i + 1)
         IN  CASE k = "syntax" -> Fail(w, h, "SQLITE_ERROR", "syntax error")
               [] k = "empty" -> ExecText(w, h, text, i + 1)
               [] w.runtime.files[w.engine.dbs[h].file].bytes = NotADatabase ->
                      Fail(w, h, "SQLITE_NOTADB", "file is not a database")
               [] k \in {"select", "param", "param2", "named"} -> ExecText(w, h, text, i + 1)
               [] k \in {"callf0", "callf1"} -> called(Dispatch(w, h, k))
               [] k = "insertp" -> Fail(w, h, "SQLITE_CONSTRAINT", "NOT NULL constraint failed")
               [] OTHER -> ran(Effect(w, h, k))

sqlite3_exec(w, h, text) ==
    IF ~IsOpenDb(w, h)
    THEN Fail(Call(w, "sqlite3_exec", h), h, "SQLITE_MISUSE", "bad parameter or other API misuse")
    ELSE ExecText(Call(w, "sqlite3_exec", h), h, text, 1)

(* ------------------- class Statement (src/src/Statement.js) ----------- *)
(* A method is the composition of its steps: the world a step leaves is    *)
(* the argument of the step that follows, written afterX(w) for "the rest  *)
(* of the method, once X has left world w".                                *)
NoStatement == [created |-> FALSE, stmt |-> NULL, db |-> NULL, pos |-> 1, allocatedmem |-> <<>>]

\* The argument `values` / `params`: null (or undefined), an array, or an
\* object given by its entries <<name, value>> in the order of its keys.
NoParams == [t |-> "null", v |-> <<>>]

Array(vals) == [t |-> "array", v |-> vals]

Object(entries) == [t |-> "object", v |-> entries]

\* return v, unless an exception is in flight.
OrReturn(w, v) == IF Failed(w) THEN w ELSE Return(w, v)

\* Database.handleError(returnCode) of Database object c: nothing for
\* SQLITE_OK, else throws an Error with the engine's last error text.
handleError(w, c, rc) ==
    IF rc = "SQLITE_OK" THEN w
    ELSE Throw(Call(w, "sqlite3_errmsg", w.database[c].db),
               sqlite3_errmsg(w, w.database[c].db))

\* new Statement(stmt1, db)
NewStatement(w, s, sh, c) ==
    [w EXCEPT !.statement[s] =
        [created |-> TRUE, stmt |-> sh, db |-> c, pos |-> 1, allocatedmem |-> <<>>]]

\* Statement.freemem(): pops and frees every recorded address.
RECURSIVE freemem(_, _)
freemem(w, s) ==
    LET mem == w.statement[s].allocatedmem
    IN  IF mem = <<>> THEN w
        ELSE freemem(free_([w EXCEPT !.statement[s].allocatedmem = SubSeq(mem, 1, Len(mem) - 1)],
                           mem[Len(mem)]),
                     s)

\* reset() that leaves the bindings of the statement.
resetKeepingBindings(w, s) ==
    LET afterReset(w3) == Return(w3, w3.rc = "SQLITE_OK")
        afterFreemem(w1) == afterReset(sqlite3_reset(w1, w1.statement[s].stmt))
    IN  afterFreemem(freemem(w, s))

\* Statement.reset()
reset(w, s) ==
    LET afterReset(w3) == Return(w3, w3.rc = "SQLITE_OK")
        afterClear(w2) ==
            IF w2.rc # "SQLITE_OK" THEN Return(w2, FALSE)
            ELSE afterReset(sqlite3_reset(w2, w2.statement[s].stmt))
        afterFreemem(w1) == afterClear(sqlite3_clear_bindings(w1, w1.statement[s].stmt))
    IN  afterFreemem(freemem(w, s))

\* free() that keeps the handle in this.stmt.
freeKeepingHandle(w, s) ==
    LET afterFinalize(w2) ==
            Return([w2 EXCEPT !.database[w2.statement[s].db].statements =
                                  MapDel(@, w2.statement[s].stmt)],
                   w2.rc = "SQLITE_OK")
        afterFreemem(w1) == afterFinalize(sqlite3_finalize(w1, w1.statement[s].stmt))
    IN  afterFreemem(freemem(w, s))

\* Statement.free()
free(w, s) ==
    LET afterFinalize(w2) ==
            Return([w2 EXCEPT !.database[w2.statement[s].db].statements =
                                  MapDel(@, w2.statement[s].stmt),
                              !.statement[s].stmt = NULL],
                   w2.rc = "SQLITE_OK")
        afterFreemem(w1) == afterFinalize(sqlite3_finalize(w1, w1.statement[s].stmt))
    IN  afterFreemem(freemem(w, s))

\* The cursor argument of the bind and get helpers: `pos` when given, else
\* this.pos, which then advances.
TakePos(w, s, pos) == IF pos = NULL THEN w.statement[s].pos ELSE pos

AdvancePos(w, s, pos) == IF pos = NULL THEN [w EXCEPT !.statement[s].pos = @ + 1] ELSE w

\* bindString that does not record the buffer it allocates.
bindStringUnrecorded(w, s, val, pos) ==
    LET p == TakePos(w, s, pos)
        afterBind(w3) == OrReturn(handleError(w3, w3.statement[s].db, w3.rc), TRUE)
        afterAllocate(w1) ==
            afterBind(sqlite3_bind(w1, "sqlite3_bind_text", w1.statement[s].stmt, p,
                                   Val("text", val.v)))
    IN  afterAllocate(allocate(AdvancePos(w, s, pos)))

\* Statement.bindString(string, pos)
bindString(w, s, val, pos) ==
    LET p == TakePos(w, s, pos)
        afterBind(w3) == OrReturn(handleError(w3, w3.statement[s].db, w3.rc), TRUE)
        afterPush(w2) ==
            afterBind(sqlite3_bind(w2, "sqlite3_bind_text", w2.statement[s].stmt, p,
                                   Val("text", val.v)))
        afterAllocate(w1) ==
            afterPush([w1 EXCEPT !.statement[s].allocatedmem = Append(@, w1.ret)])
    IN  afterAllocate(allocate(AdvancePos(w, s, pos)))

\* Statement.bindBlob(array, pos)
bindBlob(w, s, val, pos) ==
    LET p == TakePos(w, s, pos)
        afterBind(w3) == OrReturn(handleError(w3, w3.statement[s].db, w3.rc), TRUE)
        afterPush(w2) ==
            afterBind(sqlite3_bind(w2, "sqlite3_bind_blob", w2.statement[s].stmt, p,
                                   Val("blob", val.v)))
        afterAllocate(w1) ==
            afterPush([w1 EXCEPT !.statement[s].allocatedmem = Append(@, w1.ret)])
    IN  afterAllocate(allocate(AdvancePos(w, s, pos)))

\* Host numbers: Val("number", n) is the integer n of the signed 32-bit
\* range, Val("bignumber", n) the integer 2^32 + n outside of it, and
\* Val("fraction", n) the number n + 1/2.
\* num | 0: the number as a signed 32-bit integer (wrapped, truncated).
Int32(num) == Val("number", num.v)

\* bindNumber that binds every number as the 32-bit integer num | 0.
bindNumberInt(w, s, num, pos) ==
    LET p == TakePos(w, s, pos)
        afterBind(w2) == OrReturn(handleError(w2, w2.statement[s].db, w2.rc), TRUE)
        afterPos(w1) ==
            afterBind(sqlite3_bind(w1, "sqlite3_bind_int", w1.statement[s].stmt, p,
                                   Val("integer", Int32(num).v)))
    IN  afterPos(AdvancePos(w, s, pos))

\* Statement.bindNumber(num, pos)
bindNumber(w, s, num, pos) ==
    LET p == TakePos(w, s, pos)
        afterBind(w2) == OrReturn(handleError(w2, w2.statement[s].db, w2.rc), TRUE)
        afterPos(w1) ==
            afterBind(IF num = Int32(num)
                      THEN sqlite3_bind(w1, "sqlite3_bind_int", w1.statement[s].stmt, p,
                                        Val("integer", num.v))
                      ELSE sqlite3_bind(w1, "sqlite3_bind_double", w1.statement[s].stmt, p,
                                        Val("float", num)))
    IN  afterPos(AdvancePos(w, s, pos))

\* Statement.bindNull(pos)
bindNull(w, s, pos) ==
    LET p == TakePos(w, s, pos)
        afterBind(w1) == Return(w1, w1.rc = "SQLITE_OK")
    IN  afterBind(sqlite3_bind(AdvancePos(w, s, pos), "sqlite3_bind_blob",
                               w.statement[s].stmt, p, NullVal))

\* "" + val for the host values no case of bindValue takes.
Describe(val) ==
    CASE val.t = "object" -> "[object Object]"
      [] val.t = "undefined" -> "undefined"
      [] val.t = "function" -> "function () {}"
      [] OTHER -> val.t

\* bindValue with a default case that binds NULL.
bindValueAsNull(w, s, val, pos) ==
    CASE val.t = "string" -> bindString(AdvancePos(w, s, pos), s, val, TakePos(w, s, pos))
      [] val.t \in {"number", "bignumber", "fraction"} ->
             bindNumber(AdvancePos(w, s, pos), s, val, TakePos(w, s, pos))
      [] val.t = "boolean" ->
             bindNumber(AdvancePos(w, s, pos), s, Val("number", val.v), TakePos(w, s, pos))
      [] val.t = "blob" -> bindBlob(AdvancePos(w, s, pos), s, val, TakePos(w, s, pos))
      [] OTHER -> bindNull(AdvancePos(w, s, pos), s, TakePos(w, s, pos))

\* Statement.bindValue(val, pos): by typeof val.
bindValue(w, s, val, pos) ==
    CASE val.t = "string" -> bindString(AdvancePos(w, s, pos), s, val, TakePos(w, s, pos))
      [] val.t \in {"number", "bignumber", "fraction"} ->
             bindNumber(AdvancePos(w, s, pos), s, val, TakePos(w, s, pos))
      [] val.t = "boolean" ->
             bindNumber(AdvancePos(w, s, pos), s, Val("number", val.v), TakePos(w, s, pos))
      [] val.t = "null" -> bindNull(AdvancePos(w, s, pos), s, TakePos(w, s, pos))
      [] val.t = "blob" -> bindBlob(AdvancePos(w, s, pos), s, val, TakePos(w, s, pos))
      [] OTHER -> Throw(AdvancePos(w, s, pos),
                        "Wrong API use : tried to bind a value of an unknown type ("
                            \o Describe(val) \o ").")

\* Statement.bindFromArray(values), from index num on.
RECURSIVE bindFromArray(_, _, _, _)
bindFromArray(w, s, vals, num) ==
    LET afterValue(w1) == IF Failed(w1) THEN w1 ELSE bindFromArray(w1, s, vals, num + 1)
    IN  IF num >= Len(vals) THEN Return(w, TRUE)
        ELSE afterValue(bindValue(w, s, vals[num + 1], num + 1))

\* The body of the callback of bindFromObject once the lookup of the key has
\* answered (w.out is num): if (num !== 0) that.bindValue(valuesObj[name], num).
bindFound(w, s, val) == IF w.out # 0 THEN bindValue(w, s, val, w.out) ELSE w

\* bindFromObject that binds the value of every key, found or not, at the
\* place of the key among the keys.
RECURSIVE bindFromObjectAll(_, _, _, _)
bindFromObjectAll(w, s, entries, i) ==
    LET afterValue(w1) ==
            IF Failed(w1) THEN w1 ELSE bindFromObjectAll(w1, s, entries, i + 1)
    IN  IF i > Len(entries) THEN Return(w, TRUE)
        ELSE afterValue(bindValue(sqlite3_bind_parameter_index(w, w.statement[s].stmt,
                                                               entries[i][1]),
                                  s, entries[i][2], i))

\* Statement.bindFromObject(valuesObj), from the i-th key on.
RECURSIVE bindFromObject(_, _, _, _)
bindFromObject(w, s, entries, i) ==
    LET afterValue(w1) == IF Failed(w1) THEN w1 ELSE bindFromObject(w1, s, entries, i + 1)
    IN  IF i > Len(entries) THEN Return(w, TRUE)
        ELSE afterValue(bindFound(sqlite3_bind_parameter_index(w, w.statement[s].stmt,
                                                               entries[i][1]),
                                  s, entries[i][2]))

\* bind() without its reset().
bindNoReset(w, s, values) ==
    IF w.statement[s].stmt = NULL THEN Throw(w, "Statement closed")
    ELSE IF values.t = "array" THEN bindFromArray(w, s, values.v, 0)
    ELSE IF values.t = "object" THEN bindFromObject(w, s, values.v, 1)
    ELSE Return(w, TRUE)

\* Statement.bind(values)
bind(w, s, values) ==
    LET afterReset(w1) ==
            IF values.t = "array" THEN bindFromArray(w1, s, values.v, 0)
            ELSE IF values.t = "object" THEN bindFromObject(w1, s, values.v, 1)
            ELSE Return(w1, TRUE)
    IN  IF w.statement[s].stmt = NULL THEN Throw(w, "Statement closed")
        ELSE afterReset(reset(w, s))

\* Statement.step()
step(w, s) ==
    LET afterStep(w2) ==
            IF Failed(w2) THEN w2
            ELSE IF w2.rc = "SQLITE_ROW" THEN Return(w2, TRUE)
            ELSE IF w2.rc = "SQLITE_DONE" THEN Return(w2, FALSE)
            ELSE handleError(w2, w2.statement[s].db, w2.rc)
    IN  IF w.statement[s].stmt = NULL THEN Throw(w, "Statement closed")
        ELSE afterStep(sqlite3_step([w EXCEPT !.statement[s].pos = 1], w.statement[s].stmt))

\* The argument pos of getNumber when the caller gives none.
Undefined == -1

\* Statement.getNumber(pos): the column at pos, or at this.pos, which then
\* advances; a double of the engine is a number of the host.
getNumber(w, s, pos) ==
    LET afterColumn(w2) ==
            Return(w2, IF w2.out.t = "integer" THEN [t |-> "number", v |-> w2.out.v]
                       ELSE w2.out.v)
        afterPos(p, w1) == afterColumn(sqlite3_column_double(w1, w1.statement[s].stmt, p))
    IN  IF pos = Undefined
        THEN afterPos(w.statement[s].pos, [w EXCEPT !.statement[s].pos = @ + 1])
        ELSE afterPos(pos, w)

\* The decoding with getString for a BLOB column.
DecodeBlobAsText(v) ==
    CASE v.t = "integer" -> Val("number", v.v)
      [] v.t = "float" -> v.v
      [] v.t \in {"text", "blob"} -> Val("string", v.v)
      [] OTHER -> NullVal

\* The host value of a column by its type: getNumber for INTEGER and FLOAT
\* (sqlite3_column_double: the integer as a double, the double itself),
\* getString for TEXT, getBlob for BLOB, null for anything else.
Decode(v) ==
    CASE v.t = "integer" -> Val("number", v.v)
      [] v.t = "float" -> v.v
      [] v.t = "text" -> Val("string", v.v)
      [] v.t = "blob" -> Val("blob", v.v)
      [] OTHER -> NullVal

\* The loop of Statement.get over the fields field .. ref - 1.
RECURSIVE getFields(_, _, _, _, _)
getFields(w, s, field, ref, results1) ==
    LET afterColumn(w1) == getFields(w1, s, field + 1, ref, Append(results1, Decode(w1.out)))
    IN  IF field >= ref THEN Return(w, results1)
        ELSE afterColumn(sqlite3_column(w, w.statement[s].stmt, field))

\* Statement.get(params)
get(w, s, params) ==
    LET afterCount(w3) == getFields(w3, s, 0, w3.out, <<>>)
        afterStep(w2) ==
            IF Failed(w2) THEN w2
            ELSE afterCount(sqlite3_data_count(w2, w2.statement[s].stmt))
        afterBind(w1) == afterStep(IF ~Failed(w1) /\ w1.ret = TRUE THEN step(w1, s) ELSE w1)
    IN  IF params.t # "null" THEN afterBind(bind(w, s, params)) ELSE afterStep(w)

\* The loop of Statement.getColumnNames over the columns i .. ref - 1.
RECURSIVE getNames(_, _, _, _, _)
getNames(w, s, i, ref, results1) ==
    LET afterName(w1) == getNames(w1, s, i + 1, ref, Append(results1, w1.out))
    IN  IF i >= ref THEN Return(w, results1)
        ELSE afterName(sqlite3_column_name(w, w.statement[s].stmt, i))

\* Statement.getColumnNames()
getColumnNames(w, s) ==
    LET afterCount(w1) == getNames(w1, s, 0, w1.out, <<>>)
    IN  afterCount(sqlite3_data_count(w, w.statement[s].stmt))

\* Statement.getAsObject(params): the row as pairs <<name, value>>.
getAsObject(w, s, params) ==
    LET afterNames(values, w2) ==
            Return(w2, [i \in 1 .. Len(w2.ret) |-> <<w2.ret[i], values[i]>>])
        afterGet(w1) == IF Failed(w1) THEN w1 ELSE afterNames(w1.ret, getColumnNames(w1, s))
    IN  afterGet(get(w, s, params))

\* Statement.run(values)
run(w, s, values) ==
    LET afterStep(w2) == IF Failed(w2) THEN w2 ELSE reset(w2, s)
        afterBind(w1) == IF Failed(w1) THEN w1 ELSE afterStep(step(w1, s))
    IN  afterBind(IF values.t # "null" THEN bind(w, s, values) ELSE w)

(* ----------------- class Database (src/unnamed/part_002) -------------- *)
NoDatabase ==
    [constructed |-> FALSE, db |-> NULL, statements |-> EmptyMap,
     functions |-> EmptyMap, filename |-> NULL]

\* The argument `data` of the constructor.
NoData == [given |-> FALSE, bytes |-> 0]

Data(bytes) == [given |-> TRUE, bytes |-> bytes]

\* The argument {dbfile}: the Database object is on the file /working/dbfile.
DbFile(dbfile) == [given |-> FALSE, bytes |-> 0, dbfile |-> dbfile]

\* The first statement of an SQL text, which is all that sqlite3_prepare_v2
\* compiles.
FirstOf(text) == IF text = <<>> THEN "empty" ELSE text[1]

\* A `finally` block: cleanup runs on w whether or not an exception is in
\* flight, and the exception then goes on.
Finally(w, after) == [after EXCEPT !.err = IF Failed(w) THEN w.err ELSE after.err]

Masked(w) == [w EXCEPT !.err = NoErr]

\* try { ... } finally { stmt.free() } on the local Statement.
FinallyFree(w) == Finally(w, free(Masked(w), TmpStmt))

\* new Database({data}), new Database({dbfile}): the file is the one named
\* by dbfile when it is given, else a file of the object's own.
constructor(w, c, data) ==
    LET f == IF "dbfile" \in DOMAIN data THEN data.dbfile ELSE c
        afterCheck(h, w3) ==
            IF Failed(w3) THEN w3
            ELSE [registerExtensionFunctions([w3 EXCEPT !.database[c].db = h], h) EXCEPT
                     !.database[c].constructed = TRUE,
                     !.database[c].statements = EmptyMap,
                     !.database[c].functions = EmptyMap]
        afterOpen(w2) == afterCheck(w2.out, handleError(w2, c, w2.rc))
        afterFile(w1) == IF Failed(w1) THEN w1 ELSE afterOpen(sqlite3_open(w1, f))
        afterName(w0) ==
            afterFile(IF data.given THEN FS_createDataFile(w0, f, data.bytes) ELSE w0)
    IN  afterName([w EXCEPT !.database[c].filename = f])

\* Database.prepare(sql, params); s is the Statement object it creates.
prepare(w, c, text, params, s) ==
    LET afterBind(pStmt, w4) ==
            IF Failed(w4) THEN w4
            ELSE Return([w4 EXCEPT !.database[c].statements = MapPut(@, pStmt, s)], s)
        afterNew(pStmt, w3) ==
            afterBind(pStmt, IF params.t # "null" THEN bind(w3, s, params) ELSE w3)
        afterCheck(pStmt, w2) ==
            IF Failed(w2) THEN w2
            ELSE IF pStmt = NULL THEN Throw(w2, "Nothing to prepare")
            ELSE afterNew(pStmt, NewStatement(w2, s, pStmt, c))
        afterPrepare(w1) == afterCheck(w1.out, handleError(w1, c, w1.rc))
    IN  afterPrepare(sqlite3_prepare_v2(w, w.database[c].db, FirstOf(text)))

\* Database.run(sql, params)
Database_run(w, c, text, params) ==
    LET afterStep(w2) == Return(FinallyFree(w2), c)
        afterPrepare(w1) == IF Failed(w1) THEN w1 ELSE afterStep(step(w1, TmpStmt))
        afterExec(w1) == IF Failed(w1) THEN w1 ELSE OrReturn(handleError(w1, c, w1.rc), c)
    IN  IF w.database[c].db = NULL THEN Throw(w, "Database closed")
        ELSE IF params.t # "null" THEN afterPrepare(prepare(w, c, text, params, TmpStmt))
        ELSE afterExec(sqlite3_exec(w, w.database[c].db, text))

\* The inner loop of exec with the entry of a statement created before its
\* first step.
RECURSIVE execStepsEager(_, _, _, _)
execStepsEager(w, s, cur, results) ==
    LET results0(w0) ==
            IF cur THEN results ELSE Append(results, [columns |-> w0.ret, values |-> <<>>])
        afterGet(res, w3) ==
            execStepsEager(w3, s, TRUE, [res EXCEPT ![Len(res)].values = Append(@, w3.ret)])
        afterStep(res, w1) ==
            IF Failed(w1) THEN w1
            ELSE IF w1.ret = FALSE THEN Return(w1, res)
            ELSE afterGet(res, get(w1, s, NoParams))
        afterNames(w0) == afterStep(results0(w0), step(w0, s))
    IN  afterNames(IF cur THEN w ELSE getColumnNames(w, s))

\* The inner loop of Database.exec: while (stmt.step()) ...; cur tells
\* whether curresult, the last entry of results, was created.
RECURSIVE execSteps(_, _, _, _)
execSteps(w, s, cur, results) ==
    LET afterGet(results2, w3) ==
            execSteps(w3, s, TRUE,
                      [results2 EXCEPT ![Len(results2)].values = Append(@, w3.ret)])
        afterNames(w2) ==
            afterGet(IF cur THEN results
                     ELSE Append(results, [columns |-> w2.ret, values |-> <<>>]),
                     get(w2, s, NoParams))
        afterStep(w1) ==
            IF Failed(w1) THEN w1
            ELSE IF w1.ret = FALSE THEN Return(w1, results)
            ELSE afterNames(IF cur THEN w1 ELSE getColumnNames(w1, s))
    IN  afterStep(step(w, s))

\* The outer loop of exec throwing, as prepare does, for an empty statement.
RECURSIVE execLoopThrowing(_, _, _, _, _, _)
execLoopThrowing(w, c, text, i, params, results) ==
    LET afterSteps(w5) ==
            IF Failed(w5) THEN w5
            ELSE execLoopThrowing(free(w5, TmpStmt), c, text, i + 1, params, w5.ret)
        afterBind(w4) ==
            IF Failed(w4) THEN w4 ELSE afterSteps(execSteps(w4, TmpStmt, FALSE, results))
        afterNew(w3) == afterBind(IF params.t # "null" THEN bind(w3, TmpStmt, params) ELSE w3)
        afterCheck(pStmt, w2) ==
            IF Failed(w2) THEN w2
            ELSE IF pStmt = NULL THEN Throw(w2, "Nothing to prepare")
            ELSE afterNew(NewStatement(w2, TmpStmt, pStmt, c))
        afterPrepare(w1) == afterCheck(w1.out, handleError(w1, c, w1.rc))
    IN  IF i > Len(text) THEN Return(w, results)
        ELSE afterPrepare(sqlite3_prepare_v2(w, w.database[c].db, text[i]))

\* The outer loop of Database.exec, from statement i of the text on.
RECURSIVE execLoop(_, _, _, _, _, _)
execLoop(w, c, text, i, params, results) ==
    LET afterSteps(w5) ==
            IF Failed(w5) THEN w5
            ELSE execLoop(free(w5, TmpStmt), c, text, i + 1, params, w5.ret)
        afterBind(w4) ==
            IF Failed(w4) THEN w4 ELSE afterSteps(execSteps(w4, TmpStmt, FALSE, results))
        afterNew(w3) == afterBind(IF params.t # "null" THEN bind(w3, TmpStmt, params) ELSE w3)
        afterCheck(pStmt, w2) ==
            IF Failed(w2) THEN w2
            ELSE IF pStmt = NULL THEN execLoop(w2, c, text, i + 1, params, results)
            ELSE afterNew(NewStatement(w2, TmpStmt, pStmt, c))
        afterPrepare(w1) == afterCheck(w1.out, handleError(w1, c, w1.rc))
    IN  IF i > Len(text) THEN Return(w, results)
        ELSE afterPrepare(sqlite3_prepare_v2(w, w.database[c].db, text[i]))

\* exec() without its catch block.
execNoCatch(w, c, text, params) ==
    IF w.database[c].db = NULL THEN Throw(w, "Database closed")
    ELSE execLoop([w EXCEPT !.statement[TmpStmt] = NoStatement], c, text, 1, params, <<>>)

\* Database.exec(sql, params)
exec(w, c, text, params) ==
    LET afterLoop(w1) ==
            IF Failed(w1) /\ w1.statement[TmpStmt].created THEN FinallyFree(w1) ELSE w1
    IN  IF w.database[c].db = NULL THEN Throw(w, "Database closed")
        ELSE afterLoop(execLoop([w EXCEPT !.statement[TmpStmt] = NoStatement],
                                c, text, 1, params, <<>>))

\* Object.values(this.statements).forEach(stmt => stmt.free()), from the
\* i-th Statement object of the array on.
RECURSIVE freeEach(_, _, _)
freeEach(w, stmts, i) ==
    IF i > Len(stmts) THEN w ELSE freeEach(free(w, stmts[i]), stmts, i + 1)

\* Object.values(this.functions).forEach(removeFunction) over the slots.
RECURSIVE removeEach(_, _)
removeEach(w, slots) ==
    IF slots = {} THEN w
    ELSE removeEach(removeFunction(w, Min(slots)), slots \ {Min(slots)})

SlotsOf(functions) == {functions[n] : n \in DOMAIN functions}

\* freeStatements over the Statement objects of every Database object.
freeStatementsOfAll(w, c) ==
    freeEach(w, Ascending({s \in UserStmts : w.statement[s].stmt # NULL}), 1)

\* The statements export() and close() begin with: free every registered
\* Statement object, release every slot, empty the function registry.
freeStatements(w, c) == freeEach(w, ObjectValues(w.database[c].statements), 1)

removeFunctions(w, c) ==
    [removeEach(w, SlotsOf(w.database[c].functions)) EXCEPT !.database[c].functions = EmptyMap]

\* this.handleError(sqlite3_close_v2(this.db))
closeHandle(w, c) ==
    LET afterClose(w4) == handleError(w4, c, w4.rc)
    IN  afterClose(sqlite3_close_v2(w, w.database[c].db))

\* The rest of export(): read the file, open it again, keep the new handle.
reopen(w, c) ==
    LET afterCheck(binaryDb, h, w8) ==
            IF Failed(w8) THEN w8
            ELSE Return([w8 EXCEPT !.database[c].db = h], binaryDb)
        afterOpen(binaryDb, w7) == afterCheck(binaryDb, w7.out, handleError(w7, c, w7.rc))
        afterRead(w6) ==
            IF Failed(w6) THEN w6
            ELSE afterOpen(w6.ret, sqlite3_open(w6, w6.database[c].filename))
    IN  IF Failed(w) THEN w ELSE afterRead(FS_readFile(w, w.database[c].filename))

\* export() that leaves the registered Statement objects alone.
exportKeepingStatements(w, c) == reopen(closeHandle(removeFunctions(w, c), c), c)

\* Database.export()
export(w, c) == reopen(closeHandle(removeFunctions(freeStatements(w, c), c), c), c)

\* The rest of close(unlink) with the file kept whatever unlink is.
clearKeepingFile(w, c, unlink) ==
    IF Failed(w) THEN w ELSE [w EXCEPT !.database[c].db = NULL]

\* The rest of close(unlink): delete the file, clear the handle.
unlinkAndClear(w, c, unlink) ==
    LET afterUnlink(w6) == IF Failed(w6) THEN w6 ELSE [w6 EXCEPT !.database[c].db = NULL]
    IN  IF Failed(w) THEN w
        ELSE afterUnlink(IF unlink THEN FS_unlink(w, w.database[c].filename) ELSE w)

\* close(unlink = true): the value of unlink when close() is given none.
DefaultUnlink == TRUE

\* close() without its test of this.db.
closeUnguarded(w, c, unlink) ==
    unlinkAndClear(closeHandle(removeFunctions(freeStatements(w, c), c), c), c, unlink)

\* Database.close(unlink)
close(w, c, unlink) ==
    IF w.database[c].db = NULL THEN w
    ELSE unlinkAndClear(closeHandle(removeFunctions(freeStatements(w, c), c), c), c, unlink)

\* What a callback of each does when it calls back into the library: it
\* closes or exports the Database object of the statement each iterates, or
\* frees that statement (which it finds in db.statements).
Reenter(w, does) ==
    CASE does = "close" -> close(w, w.statement[TmpStmt].db, DefaultUnlink)
      [] does = "export" -> export(w, w.statement[TmpStmt].db)
      [] does = "free" -> free(w, TmpStmt)

\* The callbacks of each: callback throws at its n-th call when throwsAt is
\* n (never when it is 0); a callback with a field `does` calls back into
\* the library at its first call; a call enters the trace with the row it
\* is given.
Invoke(w, callback, n, row) ==
    IF callback.throwsAt = n
    THEN Throw(CallOut(w, "callback", NULL, row), "callback error")
    ELSE IF "does" \in DOMAIN callback /\ n = 1
    THEN Reenter(CallOut(w, "callback", NULL, row), callback.does)
    ELSE CallOut(w, "callback", NULL, row)

\* The loop of Database.each: while (stmt.step()) callback(stmt.getAsObject()),
\* after n calls of callback.
RECURSIVE eachSteps(_, _, _, _)
eachSteps(w, s, callback, n) ==
    LET afterCallback(w3) == IF Failed(w3) THEN w3 ELSE eachSteps(w3, s, callback, n + 1)
        afterRow(w2) ==
            IF Failed(w2) THEN w2 ELSE afterCallback(Invoke(w2, callback, n + 1, w2.ret))
        afterStep(w1) ==
            IF Failed(w1) \/ w1.ret = FALSE THEN w1
            ELSE afterRow(getAsObject(w1, s, NoParams))
    IN  afterStep(step(w, s))

\* Database.each(sql, params, callback, done); done tells whether a function
\* was given for it.
each(w, c, text, params, callback, done) ==
    LET afterLoop(w2) ==
            IF Failed(w2) THEN w2
            ELSE IF done THEN Return(Call(w2, "done", NULL), NULL)
            ELSE Return(w2, NULL)
        afterPrepare(w1) ==
            IF Failed(w1) THEN w1
            ELSE afterLoop(FinallyFree(eachSteps(w1, TmpStmt, callback, 0)))
    IN  afterPrepare(prepare(w, c, text, params, TmpStmt))

\* db.query(sql): class Database has the members constructor, run, exec,
\* each, prepare, export, close, handleError, getRowsModified and
\* create_function and inherits none; query is undefined on its instances,
\* and the call of undefined throws a TypeError before anything else runs.
query(w, c, text) == Throw(w, "TypeError: db.query is not a function")

\* Database.getRowsModified()
getRowsModified(w, c) == sqlite3_changes(w, w.database[c].db)

\* The rest of create_function(name, func) once the slot the name had is
\* released: allocate a slot, record it, create the function in the engine.
register(w, c, name, func) ==
    LET afterCreate(w4) == OrReturn(handleError(w4, c, w4.rc), c)
        afterAdd(w2) ==
            IF Failed(w2) THEN w2
            ELSE afterCreate(sqlite3_create_function_v2(
                                 [w2 EXCEPT !.database[c].functions = MapPut(@, name, w2.ret)],
                                 w2.database[c].db, name, func.length, w2.ret))
    IN  afterAdd(addFunction(w, func.reg))

\* create_function() that does not release the slot the name had.
createFunctionLeaking(w, c, name, func) == register(w, c, name, func)

\* Database.create_function(name, func): func is the callable, known by its
\* number reg and its declared parameter count length.
create_function(w, c, name, func) ==
    register(IF name \in DOMAIN w.database[c].functions
             THEN [removeFunction(w, w.database[c].functions[name]) EXCEPT
                      !.database[c].functions = MapDel(@, name)]
             ELSE w,
             c, name, func)

(* ------------------------------ the calls ----------------------------- *)
\* The world a public call starts in; ub is what undefined behaviour of the
\* engine yields during the call.
World(ub) ==
    [database |-> database, statement |-> statement, engine |-> engine,
     runtime |-> runtime, tr |-> <<>>, err |-> NoErr, ret |-> NULL,
     rc |-> "SQLITE_OK", out |-> NULL, ub |-> ub]

Defined == "SQLITE_OK"

UbCodes == {"SQLITE_OK", "SQLITE_MISUSE"}

\* What a query for the rows of t returns on Database object c in world w0,
\* or the error it throws.
QueryIn(w0, c) ==
    LET answer(w) == IF Failed(w) THEN <<w.err>> ELSE w.ret
    IN  answer(exec(w0, c, <<"select">>, NoParams))

Query(c) == QueryIn(World(Defined), c)

\* The rows of t that Database object c sees (0 when it is not open).
ViewOf(c) ==
    IF IsOpenDb(World(Defined), database[c].db)
    THEN View(World(Defined), database[c].db)
    ELSE 0

\* What the call about to be made finds: the handles of the Database object
\* and of the Statement object, whether close() has completed on the
\* Database object, whether the caller held the Statement object by then,
\* the handles of the live Statement objects the caller got
\* from it, the live statements of the engine, its registries, the heap,
\* the rows it sees, and whether the Statement object has a row pending.
Pre(c, s) ==
    [db |-> database[c].db,
     stmt |-> statement[s].stmt,
     closed |-> c \in closed.conns,
     prior |-> s \in closed.stmts,
     handles |-> {statement[t].stmt : t \in {u \in UserStmts : statement[u].created
                                                /\ statement[u].db = c}} \ {NULL},
     live |-> {sh \in StmtHandles : engine.stmts[sh].live},
     statements |-> database[c].statements,
     functions |-> database[c].functions,
     heap |-> runtime.heap,
     view |-> ViewOf(c),
     row |-> IsLiveStmt(World(Defined), statement[s].stmt)
                 /\ engine.stmts[statement[s].stmt].state = "row"]

\* Statement s runs an INSERT only while the table has room for the row; a
\* text only while it has room for the rows of all its INSERTs.
Inserts(text) == Cardinality({i \in DOMAIN text : text[i] = "insert"})

RoomFor(c, n) ==
    LET h == database[c].db
    IN  IsOpenDb(World(Defined), h) => View(World(Defined), h) + n <= MaxRows

StmtRoom(s) ==
    LET sh == statement[s].stmt
    IN  (IsLiveStmt(World(Defined), sh) /\ engine.stmts[sh].kind \in {"insert", "insertp"})
            => RoomFor(statement[s].db, 1)

\* The call op on Database object c (and Statement object s) ends in world w:
\* the objects, the engine and the runtime are as the call left them, the
\* local Statement of run / exec is garbage, the error text of the engine
\* (which only handleError reads, in the call where the primitive failed) is
\* forgotten, and `last` tells what was
\* called, how it ended, which primitives it called, and the handles the
\* objects held when it was called.
Done(w, op, c, s, arg) ==
    /\ database' = w.database
    /\ statement' = [w.statement EXCEPT ![TmpStmt] = NoStatement]
    /\ engine' = [w.engine EXCEPT !.dbs = [h \in DbHandles |->
                                     [@[h] EXCEPT !.errmsg = "not an error"]]]
    /\ runtime' = w.runtime
    /\ last' = [op |-> op, c |-> c, s |-> s, arg |-> arg,
                err |-> w.err, ret |-> IF Failed(w) THEN NULL ELSE w.ret, tr |-> w.tr,
                pre |-> Pre(c, s)]

\* SQL texts of at most n statements of the kinds K.
Texts(K, n) == UNION {[1 .. k -> K] : k \in 0 .. n}

\* new Database(), new Database({data})
New(c, data) ==
    /\ ~database[c].constructed
    /\ FreeDbHandles(World(Defined)) # {}
    /\ LET end(w) == Done(IF Failed(w) THEN [w EXCEPT !.database[c] = NoDatabase] ELSE w,
                           "new", c, TmpStmt, data)
       IN  end(constructor(World(Defined), c, data))
    /\ UNCHANGED <<closed, nextReg, exported>>

\* db.run(sql, params)
Run(c, text, params) ==
    /\ database[c].constructed
    /\ FreeStmtHandles(World(Defined)) # {}
    /\ RoomFor(c, Inserts(text))
    /\ Done(Database_run(World(Defined), c, text, params), "run", c, TmpStmt, <<text, params>>)
    /\ UNCHANGED <<closed, nextReg, exported>>

\* db.exec(sql, params)
Exec(c, text, params) ==
    /\ database[c].constructed
    /\ FreeStmtHandles(World(Defined)) # {}
    /\ RoomFor(c, Inserts(text))
    /\ Cardinality(FreeAddrs(World(Defined))) >= Len(params.v)
    /\ Done(exec(World(Defined), c, text, params), "exec", c, TmpStmt, <<text, params>>)
    /\ UNCHANGED <<closed, nextReg, exported>>

\* db.each(sql, params, callback, done)
Each(c, text, params, throwsAt, done) ==
    /\ database[c].constructed
    /\ FreeStmtHandles(World(Defined)) # {}
    /\ Cardinality(FreeAddrs(World(Defined))) >= Len(params.v)
    /\ Done(each(World(Defined), c, text, params, [throwsAt |-> throwsAt], done),
            "each", c, TmpStmt, <<text, params, throwsAt, done>>)
    /\ UNCHANGED <<closed, nextReg, exported>>

\* db.each(sql, callback, done) with a callback that closes or exports db or
\* frees the statement of each.
EachReentrant(c, text, does, done) ==
    /\ database[c].constructed
    /\ FreeStmtHandles(World(Defined)) # {}
    /\ LET end(w) ==
               /\ Done(w, "each", c, TmpStmt, <<text, does, done>>)
               /\ closed' = IF database[c].db # NULL /\ w.database[c].db = NULL
                            THEN [conns |-> closed.conns \cup {c},
                                  stmts |-> closed.stmts \cup
                                      {s \in UserStmts : /\ statement[s].created
                                                         /\ statement[s].db = c}]
                            ELSE closed
       IN  end(each(World(Defined), c, text, NoParams, [throwsAt |-> 0, does |-> does], done))
    /\ UNCHANGED <<nextReg, exported>>

\* stmt = db.prepare(sql, params): the caller gets a new Statement object,
\* or nothing when prepare throws; it asks for no more than `limit` of them.
Prepare(c, text, params, limit) ==
    /\ database[c].constructed
    /\ FreeStmtHandles(World(Defined)) # {}
    /\ Cardinality(FreeAddrs(World(Defined))) >= Len(params.v)
    /\ \E s \in 1 .. limit :
          /\ ~statement[s].created
          /\ \A t \in UserStmts : t < s => statement[t].created
          /\ LET end(w) ==
                     Done(IF Failed(w) THEN [w EXCEPT !.statement[s] = NoStatement] ELSE w,
                          "prepare", c, s, <<text, params>>)
             IN  end(prepare(World(Defined), c, text, params, s))
    /\ UNCHANGED <<closed, nextReg, exported>>

\* db.export(); its entry in `last` keeps, as arg, what a query returned on
\* the Database object when export() was called.
Export(c) ==
    /\ database[c].constructed
    /\ LET end(w) ==
               /\ Done(w, "export", c, TmpStmt, Query(c))
               /\ exported' = IF Failed(w) THEN exported ELSE Data(w.ret)
       IN  end(export(World(Defined), c))
    /\ UNCHANGED <<closed, nextReg>>

\* db.close(unlink)
Close(c, unlink) ==
    /\ database[c].constructed
    /\ LET end(w) ==
               /\ Done(w, "close", c, TmpStmt, unlink)
               /\ closed' = IF Failed(w) THEN closed
                            ELSE [conns |-> closed.conns \cup {c},
                                  stmts |-> closed.stmts \cup
                                      {s \in UserStmts : /\ statement[s].created
                                                         /\ statement[s].db = c}]
       IN  end(close(World(Defined), c, unlink))
    /\ UNCHANGED <<nextReg, exported>>

\* db.query(sql)
CallQuery(c, text) ==
    /\ database[c].constructed
    /\ Done(query(World(Defined), c, text), "query", c, TmpStmt, <<text, NoParams>>)
    /\ UNCHANGED <<closed, nextReg, exported>>

\* db.getRowsModified()
GetRowsModified(c, ub) ==
    /\ database[c].constructed
    /\ Done(getRowsModified(World(ub), c), "getRowsModified", c, TmpStmt, <<>>)
    /\ UNCHANGED <<closed, nextReg, exported>>

\* db.create_function(name, func) with a new callable of `length` parameters,
\* while fewer than `limit` callables were created.
CreateFunction(c, name, length, ub, limit) ==
    /\ database[c].constructed
    /\ nextReg < limit
    /\ nextReg' = nextReg + 1
    /\ Done(create_function(World(ub), c, name, [reg |-> nextReg + 1, length |-> length]),
            "create_function", c, TmpStmt, <<name, length>>)
    /\ UNCHANGED <<closed, exported>>

\* db.create_function(name, func) with callable Special + i, of no parameter.
Register(c, name, i) ==
    /\ database[c].constructed
    /\ Done(create_function(World(Defined), c, name, [reg |-> Special + i, length |-> 0]),
            "create_function", c, TmpStmt, <<name, 0>>)
    /\ UNCHANGED <<closed, nextReg, exported>>

\* The calls on a Statement object the caller holds.
\* stmt.getNumber() while the cursor is below MaxPos, stmt.getNumber(pos).
StmtGetNumber(s, pos) ==
    /\ statement[s].created
    /\ pos = Undefined => statement[s].pos < MaxPos
    /\ Done(getNumber(World(Defined), s, pos), "getNumber", statement[s].db, s, pos)
    /\ UNCHANGED <<closed, nextReg, exported>>

StmtBind(s, values, ub) ==
    /\ statement[s].created
    /\ Cardinality(FreeAddrs(World(ub))) >= Len(values.v)
    /\ Done(bind(World(ub), s, values), "bind", statement[s].db, s, values)
    /\ UNCHANGED <<closed, nextReg, exported>>

StmtStep(s) ==
    /\ statement[s].created
    /\ StmtRoom(s)
    /\ Done(step(World(Defined), s), "step", statement[s].db, s, <<>>)
    /\ UNCHANGED <<closed, nextReg, exported>>

StmtGet(s, params, ub) ==
    /\ statement[s].created
    /\ StmtRoom(s)
    /\ Cardinality(FreeAddrs(World(ub))) >= Len(params.v)
    /\ Done(get(World(ub), s, params), "get", statement[s].db, s, params)
    /\ UNCHANGED <<closed, nextReg, exported>>

StmtGetAsObject(s, params, ub) ==
    /\ statement[s].created
    /\ StmtRoom(s)
    /\ Cardinality(FreeAddrs(World(ub))) >= Len(params.v)
    /\ Done(getAsObject(World(ub), s, params), "getAsObject", statement[s].db, s, params)
    /\ UNCHANGED <<closed, nextReg, exported>>

StmtGetColumnNames(s) ==
    /\ statement[s].created
    /\ Done(getColumnNames(World(Defined), s), "getColumnNames", statement[s].db, s, <<>>)
    /\ UNCHANGED <<closed, nextReg, exported>>

StmtRun(s, values, ub) ==
    /\ statement[s].created
    /\ StmtRoom(s)
    /\ Cardinality(FreeAddrs(World(ub))) >= Len(values.v)
    /\ Done(run(World(ub), s, values), "stmt.run", statement[s].db, s, values)
    /\ UNCHANGED <<closed, nextReg, exported>>

StmtReset(s, ub) ==
    /\ statement[s].created
    /\ Done(reset(World(ub), s), "reset", statement[s].db, s, <<>>)
    /\ UNCHANGED <<closed, nextReg, exported>>

StmtFree(s) ==
    /\ statement[s].created
    /\ Done(free(World(Defined), s), "free", statement[s].db, s, <<>>)
    /\ UNCHANGED <<closed, nextReg, exported>>

(* --------------------------- specifications --------------------------- *)
\* The program starts with one Database object constructed by new Database().
BlankWorld ==
    [database |-> [c \in Conns |-> NoDatabase],
     statement |-> [s \in StmtIds |-> NoStatement],
     engine |-> [dbs |-> [h \in DbHandles |-> FreeDbRec],
                 stmts |-> [sh \in StmtHandles |-> FreeStmtRec]],
     runtime |-> [files |-> [f \in Files |-> NoFile],
                  table |-> [sl \in Slots |-> NULL],
                  heap |-> {}],
     tr |-> <<>>, err |-> NoErr, ret |-> NULL, rc |-> "SQLITE_OK", out |-> NULL,
     ub |-> Defined]

FirstWorld == constructor(BlankWorld, 1, NoData)

Init ==
    /\ database = FirstWorld.database
    /\ statement = FirstWorld.statement
    /\ engine = FirstWorld.engine
    /\ runtime = FirstWorld.runtime
    /\ last = [op |-> "new", c |-> 1, s |-> TmpStmt, arg |-> NoData,
               err |-> NoErr, ret |-> NULL, tr |-> FirstWorld.tr,
               pre |-> [db |-> NULL, stmt |-> NULL, closed |-> FALSE, prior |-> FALSE,
                        handles |-> {},
                        live |-> {}, statements |-> EmptyMap, functions |-> EmptyMap,
                        heap |-> {}, view |-> 0, row |-> FALSE]]
    /\ closed = [conns |-> {}, stmts |-> {}]
    /\ nextReg = 0
    /\ exported = NoData

(* The calls of a Database object and of its Statement objects, over its   *)
(* whole life: prepared statements with and without a bound buffer, a      *)
(* registered function, close with and without deleting the file, export.  *)
LifeText == <<"param">>

\* The Statement objects the caller asks for where a claim is not about
\* several of them.
Held == MaxStmt - 1

LifeParams == {NoParams, Array(<<Val("string", 1)>>)}

Next ==
    \/ \E p \in LifeParams : Prepare(1, LifeText, p, Held)
    \/ Run(1, <<"select">>, NoParams)
    \/ Exec(1, LifeText, NoParams)
    \/ Export(1)
    \/ \E u \in BOOLEAN : Close(1, u)
    \/ \E ub \in UbCodes : CreateFunction(1, "f", 0, ub, 1)
    \/ \E s \in UserStmts, v \in LifeParams, ub \in UbCodes : StmtBind(s, v, ub)
    \/ \E s \in UserStmts : StmtStep(s)
    \/ \E s \in UserStmts, ub \in UbCodes : StmtGet(s, NoParams, ub)
    \/ \E s \in UserStmts, ub \in UbCodes : StmtGetAsObject(s, NoParams, ub)
    \/ \E s \in UserStmts : StmtGetColumnNames(s)
    \/ \E s \in UserStmts, ub \in UbCodes : StmtRun(s, NoParams, ub)
    \/ \E s \in UserStmts, ub \in UbCodes : StmtReset(s, ub)
    \/ \E s \in UserStmts : StmtFree(s)

Spec == Init /\ [][Next]_vars

(* ------------------------- what a call did ---------------------------- *)
\* The primitives of the engine among the primitives a call can reach.
EnginePrims ==
    {"sqlite3_open", "sqlite3_close_v2", "sqlite3_exec", "sqlite3_prepare_v2",
     "sqlite3_step", "sqlite3_reset", "sqlite3_clear_bindings", "sqlite3_finalize",
     "sqlite3_bind_int", "sqlite3_bind_double", "sqlite3_bind_text", "sqlite3_bind_blob",
     "sqlite3_bind_parameter_index", "sqlite3_data_count", "sqlite3_column_name", "sqlite3_column", "sqlite3_errmsg",
     "sqlite3_create_function_v2", "sqlite3_changes", "registerExtensionFunctions"}

\* The positions of the trace of the last call that hold primitive f.
At(f) == {i \in DOMAIN last.tr : last.tr[i].f = f}

EngineCalls == {i \in DOMAIN last.tr : last.tr[i].f \in EnginePrims}

\* The last call ended without an exception.
Succeeded == last.err = NoErr

(* ------------------------ close and finalize -------------------------- *)
\* C1: after close() has returned on a Database object, every run or exec on
\* it throws "Database closed", every bind, step or run on a Statement
\* object the caller got from its prepare before throws "Statement closed",
\* and none of these calls reaches the engine.
C1_AfterClose ==
    /\ (last.op \in {"run", "exec"} /\ last.pre.closed)
           => (last.err = "Database closed" /\ EngineCalls = {})
    /\ (last.op \in {"bind", "step", "stmt.run"} /\ last.pre.prior)
           => (last.err = "Statement closed" /\ EngineCalls = {})

\* C2: once a Statement object is finalized (its handle is cleared), bind,
\* step, get, getAsObject, getColumnNames, run and reset on it all throw
\* "Statement closed", and no primitive of the engine is given the cleared
\* handle.
C2_AfterFinalize ==
    (/\ last.op \in {"bind", "step", "get", "getAsObject", "getColumnNames",
                     "stmt.run", "reset"}
     /\ last.pre.stmt = NULL)
        => (last.err = "Statement closed" /\ EngineCalls = {})

\* C3: the handle of a Database object is null exactly when close() has
\* completed on it, and from then on both of its registries are empty.
C3_NullIffClosed ==
    \A c \in Conns :
        database[c].constructed =>
            /\ (database[c].db = NULL) <=> (c \in closed.conns)
            /\ (c \in closed.conns) =>
                   (database[c].statements = EmptyMap /\ database[c].functions = EmptyMap)

\* C4: close() on a Database object whose handle is null already does
\* nothing: no primitive is called, no file is deleted, nothing is thrown,
\* and the Database objects, the Statement objects, the engine and the
\* runtime are what they were.
C4_CloseTwice ==
    [][(last'.op = "close" /\ database[last'.c].db = NULL)
           => (/\ last'.err = NoErr
               /\ last'.tr = <<>>
               /\ UNCHANGED <<database, statement, engine, runtime>>)]_vars

\* close() was called a second time, after a close() that deleted the file.
C4_Witness ==
    /\ last.op = "close"
    /\ last.pre.closed
    /\ last.pre.db = NULL
    /\ ~runtime.files[database[1].filename].exists

(* ------------------------------ export -------------------------------- *)
\* C7: after export() returned: both registries of the Database object are
\* empty; every Statement object the caller held is finalized, its handle
\* released in the engine, and its bind and step throw "Statement closed";
\* every sqlite3_finalize and removeFunction of the call came before its
\* sqlite3_close_v2, one for every handle and slot that was registered; and
\* the Database object holds an open connection on its own file.
C7_Export ==
    (last.op = "export" /\ Succeeded) =>
        LET c == last.c
            closeAt == Min(At("sqlite3_close_v2"))
        IN  /\ database[c].statements = EmptyMap
            /\ database[c].functions = EmptyMap
            /\ \A s \in UserStmts :
                   (statement[s].created /\ statement[s].db = c) =>
                       /\ statement[s].stmt = NULL
                       /\ bind(World(Defined), s, NoParams).err = "Statement closed"
                       /\ step(World(Defined), s).err = "Statement closed"
            /\ At("sqlite3_close_v2") # {}
            /\ \A i \in At("sqlite3_finalize") \cup At("removeFunction") : i < closeAt
            /\ \A sh \in last.pre.handles :
                   /\ ~engine.stmts[sh].live
                   /\ \E i \in At("sqlite3_finalize") : last.tr[i].h = sh
            /\ \A sl \in SlotsOf(last.pre.functions) :
                   \E i \in At("removeFunction") : last.tr[i].h = sl
            /\ IsOpenDb(World(Defined), database[c].db)
            /\ engine.dbs[database[c].db].file = database[c].filename

\* export() returned on a Database object that had a Statement object and a
\* function registered.
C7_Witness ==
    /\ last.op = "export"
    /\ Succeeded
    /\ last.pre.handles # {}
    /\ last.pre.functions # EmptyMap
    /\ last.pre.db # NULL

(* ------------------------------- exec --------------------------------- *)
(* exec on SQL texts of up to MaxText statements that return rows, return  *)
(* none, change the table, fail to compile, fail to bind or fail to step.  *)
ExecKinds == {"select", "param", "insert", "constraint", "syntax"}

ExecParams == {NoParams, Array(<<Val("string", 1)>>)}

NextExec == \E text \in Texts(ExecKinds, MaxText), p \in ExecParams : Exec(1, text, p)

SpecExec == Init /\ [][NextExec]_vars

\* The rows statement i of a text produces when the text runs from a table
\* of `view` rows with the given parameters: a SELECT of the table sees the
\* rows the INSERTs before it added; SELECT ? gives its parameter.
RowsOf(text, i, params, view) ==
    LET n == view + Cardinality({j \in 1 .. (i - 1) : text[j] = "insert"})
    IN  CASE text[i] = "select" -> [r \in 1 .. n |-> <<Val("number", r)>>]
          [] text[i] = "param" ->
                 <<IF params.t = "array" THEN <<params.v[1]>> ELSE <<NullVal>>>>
          [] OTHER -> <<>>

\* One entry for every statement of text[1 .. i] that has rows, in order.
RECURSIVE Entries(_, _, _, _)
Entries(text, i, params, view) ==
    IF i = 0 THEN <<>>
    ELSE LET rows == RowsOf(text, i, params, view)
         IN  Entries(text, i - 1, params, view)
                 \o (IF rows = <<>> THEN <<>> ELSE <<[columns |-> <<"a">>, values |-> rows]>>)

Prepared == {i \in At("sqlite3_prepare_v2") : last.tr[i].out # NULL}

\* The position of the first prepare after position i, or the end of the call.
NextPrepare(i) ==
    LET later == {j \in At("sqlite3_prepare_v2") : j > i}
    IN  IF later = {} THEN Len(last.tr) + 1 ELSE Min(later)

\* C6: when exec has returned or thrown, every statement handle it created
\* was finalized exactly once, before the next statement was prepared, and
\* the engine holds no statement it did not hold before.
C6_ExecFinalizes ==
    (last.op = "exec") =>
        /\ \A i \in Prepared :
               Cardinality({j \in At("sqlite3_finalize") :
                               /\ last.tr[j].h = last.tr[i].out
                               /\ i < j
                               /\ j < NextPrepare(i)}) = 1
        /\ {sh \in StmtHandles : engine.stmts[sh].live} = last.pre.live

\* exec threw from the step of the second statement of a text.
C6_Witness ==
    /\ last.op = "exec"
    /\ last.err = "UNIQUE constraint failed"
    /\ Cardinality(Prepared) = 2

(* -------------------------- create_function -------------------------- *)
(* Functions f and g registered and registered again, with callables of    *)
(* no or one parameter, while statements that call f are prepared, stepped *)
(* and reset, and texts that call f are executed.                          *)
Lengths == {0, 1}

NextFunc ==
    \/ \E n \in Names, l \in Lengths : CreateFunction(1, n, l, Defined, MaxReg)
    \/ Prepare(1, <<"callf0">>, NoParams, Held)
    \/ \E s \in UserStmts : StmtStep(s)
    \/ \E s \in UserStmts : StmtReset(s, Defined)
    \/ \E k \in {"callf0", "callf1"} : Exec(1, <<k>>, NoParams)

SpecFunc == Init /\ [][NextFunc]_vars

\* The slots of the function table that hold a function.
Allocated == Slots \ FreeSlots(World(Defined))

\* SELECT f() or SELECT f(1), by the number of parameters of the callable.
CallOf(length) == IF length = 0 THEN "callf0" ELSE "callf1"

\* C9: however often a name was registered, the function table holds one
\* slot for every registered name and no other (the slot a name had is
\* released before its replacement is allocated), and after the N-th
\* registration of f a call of f with the arguments of the N-th callable
\* gives the result of that callable.
C9_Reregister ==
    /\ Allocated = UNION {SlotsOf(database[c].functions) : c \in Conns}
    /\ \A c \in Conns :
           Cardinality(SlotsOf(database[c].functions))
               = Cardinality(DOMAIN database[c].functions)
    /\ (last.op = "create_function") =>
           /\ \A i \in At("removeFunction") : \A j \in At("addFunction") : i < j
           /\ (last.arg[1] \in DOMAIN last.pre.functions) =>
                  \E i \in At("removeFunction") :
                      last.tr[i].h = last.pre.functions[last.arg[1]]
    /\ (last.op = "create_function" /\ Succeeded /\ last.arg[1] = "f") =>
           exec(World(Defined), last.c, <<CallOf(last.arg[2])>>, NoParams).ret
               = <<[columns |-> <<"a">>, values |-> <<<<Val("number", nextReg)>>>>]>>

\* f was registered MaxReg times in succession.
C9_Witness ==
    /\ last.op = "create_function"
    /\ Succeeded
    /\ nextReg = MaxReg
    /\ DOMAIN database[1].functions = {"f"}
    /\ Cardinality(Allocated) = 1

\* C10: every function entry of an open connection of the engine targets a
\* slot of the function table that holds the wrapper the entry was created
\* for: the engine never holds a released slot.
C10_NoDanglingSlot ==
    \A h \in DbHandles :
        IsOpenDb(World(Defined), h) =>
            \A e \in engine.dbs[h].funcs : runtime.table[e.slot] = e.reg

(* ------------------------- export and reimport ------------------------ *)
(* Rows inserted inside and outside of transactions, then export.          *)
TxnKinds == {"insert", "begin", "commit", "rollback"}

NextExport ==
    \/ \E k \in TxnKinds : Run(1, <<k>>, NoParams)
    \/ Exec(1, <<"select">>, NoParams)
    \/ Export(1)

SpecExport == Init /\ [][NextExport]_vars

\* C8: a new Database object constructed on the bytes export() returned
\* answers a query as the source Database object did when export() was
\* called.
C8_ExportReimport ==
    (last.op = "export" /\ Succeeded) =>
        LET copy(w) == ~Failed(w) /\ QueryIn(w, 2) = last.arg
        IN  copy(constructor(World(Defined), 2, Data(last.ret)))

\* export() returned on a Database object that saw a row.
C8_Witness ==
    /\ last.op = "export"
    /\ Succeeded
    /\ last.pre.view > 0
    /\ QueryIn(constructor(World(Defined), 2, Data(last.ret)), 2) = last.arg

(* ------------------------ the function wrapper ------------------------ *)
(* Function f registered with callables that return a value of every type  *)
(* or throw, and called by exec, by run, and by the step and get of a      *)
(* prepared statement.                                                     *)
NextUdf ==
    \/ \E i \in DOMAIN Outcomes : Register(1, "f", i)
    \/ Exec(1, <<"callf0">>, NoParams)
    \/ Run(1, <<"callf0">>, NoParams)
    \/ Prepare(1, <<"callf0">>, NoParams, Held)
    \/ \E s \in UserStmts : StmtStep(s)
    \/ \E s \in UserStmts : StmtGet(s, NoParams, Defined)
    \/ \E s \in UserStmts : StmtReset(s, Defined)

SpecUdf == Init /\ [][NextUdf]_vars

ResultPrims ==
    {"sqlite3_result_int", "sqlite3_result_double", "sqlite3_result_text",
     "sqlite3_result_blob", "sqlite3_result_null", "sqlite3_result_error"}

\* The positions of the last call where the engine called a wrapper, and
\* what the callable of that wrapper does.
Invoked == {i \in At("call_indirect") : runtime.table[last.tr[i].h] # NULL}

OutcomeAt(i) == Outcome(runtime.table[last.tr[i].h])

\* The results set between the call of the wrapper at position i and the
\* next call of a wrapper.
ResultsOf(i) ==
    {j \in DOMAIN last.tr :
        /\ last.tr[j].f \in ResultPrims
        /\ i < j
        /\ \A k \in At("call_indirect") : ~(i < k /\ k < j)}

\* C11: when the callable of a registered function throws during a step,
\* the wrapper sets an error result with the thrown value (nothing unwinds
\* through the engine), the step, get, run or exec in progress throws the
\* error handleError makes of the engine's error text, which is the thrown
\* value's description, and exec has finalized its statement by then.
C11_CallableThrows ==
    \A i \in Invoked :
        (OutcomeAt(i).t = "throw") =>
            /\ last.tr[i + 1] = [f |-> "sqlite3_result_error", h |-> last.pre.db,
                                 out |-> Val("error", OutcomeAt(i).v)]
            /\ At("sqlite3_errmsg") # {}
            /\ \A j \in At("sqlite3_errmsg") : i < j
            /\ last.err = OutcomeAt(i).v
            /\ (last.op = "exec") =>
                   /\ \A p \in Prepared :
                          \E j \in At("sqlite3_finalize") :
                              i < j /\ last.tr[j].h = last.tr[p].out
                   /\ {sh \in StmtHandles : engine.stmts[sh].live} = last.pre.live

\* exec threw what the callable of f threw.
C11_Witness ==
    /\ last.op = "exec"
    /\ last.err = "internal exception"
    /\ Invoked # {}
    /\ Prepared # {}

\* The result the wrapper has to set for what the callable returned.
Expected(v) ==
    CASE v.t = "boolean" -> [f |-> "sqlite3_result_int", out |-> Val("integer", v.v)]
      [] v.t \in {"number", "bignumber", "fraction"} ->
             [f |-> "sqlite3_result_double", out |-> Val("float", v)]
      [] v.t = "string" -> [f |-> "sqlite3_result_text", out |-> Val("text", v.v)]
      [] v.t = "blob" -> [f |-> "sqlite3_result_blob", out |-> Val("blob", v.v)]
      [] v.t = "null" -> [f |-> "sqlite3_result_null", out |-> NullVal]
      [] v.t = "object" ->
             [f |-> "sqlite3_result_error",
              out |-> Val("error", "Wrong API use : tried to return a value of an unknown type")]
      [] OTHER -> [f |-> "sqlite3_result_null", out |-> NullVal]

\* C12: for every value the callable returns the wrapper sets exactly one
\* result: an integer 0/1 for a boolean, a double for a number, a text for
\* a string, a blob for an object with a length, null for null, and for any
\* other object an error whose text starts with "Wrong API use : tried to
\* return a value of an unknown type"; the buffer of a blob result is freed.
C12_OneResult ==
    \A i \in Invoked :
        (OutcomeAt(i).t = "return") =>
            /\ Cardinality(ResultsOf(i)) = 1
            /\ \A j \in ResultsOf(i) :
                   /\ last.tr[j].f = Expected(OutcomeAt(i).v).f
                   /\ last.tr[j].out = Expected(OutcomeAt(i).v).out
            /\ runtime.heap = last.pre.heap

\* exec threw the error of a callable that returned an object of no known
\* type.
C12_Witness ==
    /\ last.op = "exec"
    /\ Invoked # {}
    /\ \A i \in Invoked : OutcomeAt(i) = Returns(Val("object", 1))
    /\ last.err = "Wrong API use : tried to return a value of an unknown type"

(* ----------------------- binding and the arena ------------------------ *)
(* One statement with one parameter, bound with arrays of none, one or two *)
(* values of every kind of host value, stepped, read, run, reset and freed;*)
(* exec with parameters that bind and that fail to bind.                   *)
BindVals ==
    {NullVal, Val("number", 1), Val("boolean", 1), Val("string", 1), Val("blob", 1)}

\* Arrays of at most n of the values V.
Arrays(V, n) == {Array(a) : a \in UNION {[1 .. k -> V] : k \in 0 .. n}}

BindParams == {NoParams} \cup Arrays(BindVals, 2)

Strings == {Array(<<Val("string", 1)>>), Array(<<Val("blob", 1), Val("string", 1)>>)}

NextBind ==
    \/ \E p \in {NoParams, Array(<<Val("string", 1)>>)} : Prepare(1, <<"param">>, p, 1)
    \/ \E p \in Strings : Exec(1, <<"param">>, p)
    \/ \E s \in UserStmts, v \in BindParams : StmtBind(s, v, Defined)
    \/ \E s \in UserStmts : StmtStep(s)
    \/ \E s \in UserStmts : StmtGet(s, NoParams, Defined)
    \/ \E s \in UserStmts, v \in {NoParams} \cup Strings : StmtRun(s, v, Defined)
    \/ \E s \in UserStmts : StmtReset(s, Defined)
    \/ \E s \in UserStmts : StmtFree(s)

SpecBind == Init /\ [][NextBind]_vars

\* The parameters of the statement of the Statement object of the last
\* call, as the engine declares them.
Declared == Len(engine.stmts[statement[last.s].stmt].bound)

\* C13: bind with an array of more values than the statement has
\* parameters throws the engine's out-of-range error, whatever the kind of
\* the value at the position that is out of range.
C13_BindTooMany ==
    (/\ last.op = "bind"
     /\ last.pre.stmt # NULL
     /\ last.arg.t = "array"
     /\ Len(last.arg.v) > Declared)
        => last.err = "column index out of range"

\* The buffers of the arena of Statement object s.
Arena(s) == {statement[s].allocatedmem[i] : i \in DOMAIN statement[s].allocatedmem}

\* The positions of the last call before position j that allocate or free
\* address a.
Touching(a, j) ==
    {i \in 1 .. (j - 1) :
        \/ last.tr[i].f = "allocate" /\ last.tr[i].out = a
        \/ last.tr[i].f = "_free" /\ last.tr[i].h = a}

Max(S) == CHOOSE x \in S : \A y \in S : x >= y

\* C15: every buffer allocated for a text or blob bind is in the arena of
\* its Statement object, also when the bind primitive failed (the heap holds
\* the buffers of the arenas and nothing else, no buffer twice); a buffer is
\* freed once, being allocated and not yet freed; step and get() free
\* nothing, and no call frees a buffer between its allocation and a step
\* that follows it.
C15_ArenaOwnsBuffers ==
    /\ runtime.heap = UNION {Arena(s) : s \in StmtIds}
    /\ \A s \in StmtIds : Cardinality(Arena(s)) = Len(statement[s].allocatedmem)
    /\ \A s, t \in StmtIds : s # t => Arena(s) \cap Arena(t) = {}
    /\ \A j \in At("_free") :
           LET a == last.tr[j].h
           IN  IF Touching(a, j) = {} THEN a \in last.pre.heap
               ELSE last.tr[Max(Touching(a, j))].f = "allocate"
    /\ (last.op = "step" \/ (last.op = "get" /\ last.arg.t = "null")) => At("_free") = {}
    /\ \A i \in At("allocate") : \A k \in At("sqlite3_step") :
           i < k => \A j \in At("_free") : ~(i < j /\ j < k /\ last.tr[j].h = last.tr[i].out)

\* bind allocated a buffer for a value whose bind primitive failed, and the
\* buffer is in the arena.
C15_Witness ==
    /\ last.op = "bind"
    /\ last.err = "column index out of range"
    /\ At("allocate") # {}
    /\ At("sqlite3_bind_text") # {}
    /\ last.tr[Max(At("allocate"))].out \in Arena(last.s)
    /\ last.pre.heap # {}

\* The text and blob values of the argument of a call that binds.
Buffers(values) ==
    IF values.t # "array" THEN 0
    ELSE Cardinality({i \in DOMAIN values.v : values.v[i].t \in {"string", "blob"}})

\* C16: the arena of a Statement object never accumulates: a call that
\* binds (bind, prepare with parameters, get or run with values) leaves at
\* most one buffer for every text or blob value of that call, any other
\* call leaves no more buffers than it found, and reset, free and a run that
\* succeeded leave none.
C16_ArenaBounded ==
    [][\A s \in UserStmts :
          LET n == Len(statement[s].allocatedmem)
              m == Len(statement'[s].allocatedmem)
              op == last'.op
          IN  IF last'.s # s THEN m <= n
              ELSE /\ CASE op = "bind" -> m <= Buffers(last'.arg)
                        [] op = "prepare" -> m <= Buffers(last'.arg[2])
                        [] op \in {"get", "stmt.run"} /\ last'.arg.t # "null" ->
                               m <= Buffers(last'.arg)
                        [] OTHER -> m <= n
                   /\ (op \in {"reset", "free"}) => m = 0
                   /\ (op = "stmt.run" /\ last'.err = NoErr) => m = 0]_vars

\* bind with one string on a Statement object whose arena held the two
\* buffers of an earlier bind left one buffer.
C16_Witness ==
    /\ last.op = "bind"
    /\ Succeeded
    /\ Cardinality(last.pre.heap) = 2
    /\ Len(statement[last.s].allocatedmem) = 1
    /\ Buffers(last.arg) = 1

(* ------------------------------ rebinding ----------------------------- *)
(* One statement with two parameters, bound again and again with arrays of *)
(* none, one or two values, directly and through get and run, with rows    *)
(* pending and without.                                                    *)
RebindVals == {NullVal, Val("number", 1), Val("string", 1), Val("string", 2)}

RebindParams == {NoParams} \cup Arrays(RebindVals, 2)

NextRebind ==
    \/ Prepare(1, <<"param2">>, NoParams, 1)
    \/ \E s \in UserStmts, v \in RebindParams : StmtBind(s, v, Defined)
    \/ \E s \in UserStmts : StmtStep(s)
    \/ \E s \in UserStmts, v \in RebindParams : StmtGet(s, v, Defined)
    \/ \E s \in UserStmts, v \in RebindParams : StmtRun(s, v, Defined)

SpecRebind == Init /\ [][NextRebind]_vars

\* What get gives back for host value v: a boolean reads as 0 / 1.
AsRead(v) == IF v.t = "boolean" THEN Val("number", v.v) ELSE v

\* The host values that n parameters hold once `values` alone is bound:
\* the value named for the parameter, null for a parameter not named.
Latest(values, n) ==
    [i \in 1 .. n |->
        IF values.t = "array" /\ i <= Len(values.v) THEN AsRead(values.v[i]) ELSE NullVal]

\* The host values of engine bindings.
HostValues(bound) == [i \in DOMAIN bound |-> Decode(bound[i])]

\* The row of SELECT ifnull(?, ?) for parameters that hold the values vals.
FirstRow(vals) == <<IF vals[1].t # "null" THEN vals[1] ELSE vals[2]>>

\* C14: after bind(values), directly or through get(values) or
\* run(values), also on a statement that was bound and stepped before, the
\* statement sees the latest binding alone: the parameters named by values
\* hold the new values, the others are NULL, and the step that follows (the
\* step of get and of run) starts from the first row with these bindings.
C14_LatestBinding ==
    (/\ last.op \in {"bind", "get", "stmt.run"}
     /\ last.pre.stmt # NULL
     /\ last.arg.t # "null"
     /\ Len(last.arg.v) <= Declared
     /\ Succeeded) =>
        LET st == engine.stmts[statement[last.s].stmt]
            vals == Latest(last.arg, Declared)
            first(w) == ~Failed(w) /\ w.ret = FirstRow(vals)
        IN  CASE last.op = "bind" ->
                     /\ HostValues(st.bound) = vals
                     /\ first(get(step(World(Defined), last.s), last.s, NoParams))
              [] last.op = "get" ->
                     /\ HostValues(st.bound) = vals
                     /\ Cardinality(At("sqlite3_step")) = 1
                     /\ \A i \in At("sqlite3_step") : HostValues(last.tr[i].out) = vals
                     /\ st.nrow = 1
                     /\ last.ret = FirstRow(vals)
              [] OTHER ->
                     /\ Cardinality(At("sqlite3_step")) = 1
                     /\ \A i \in At("sqlite3_step") : HostValues(last.tr[i].out) = vals

\* get with one value returned its row on a statement that had a row
\* pending and a buffer bound.
C14_Witness ==
    /\ last.op = "get"
    /\ Succeeded
    /\ last.pre.row
    /\ last.pre.heap # {}
    /\ last.arg.t = "array"
    /\ Len(last.arg.v) = 1
    /\ last.ret = <<Val("number", 1)>>

(* ------------------------- values, there and back --------------------- *)
(* SELECT ? bound with one value of every kind and read back.  String and  *)
(* blob 0 are the empty string and the empty byte buffer.                  *)
RoundVals ==
    {NullVal, Val("boolean", 0), Val("boolean", 1),
     Val("number", 0), Val("number", 1), Val("number", -1),
     Val("bignumber", 1), Val("bignumber", -1), Val("fraction", 0),
     Val("string", 0), Val("string", 1), Val("blob", 0), Val("blob", 1)}

NextValues ==
    \/ Prepare(1, <<"param">>, NoParams, 1)
    \/ \E s \in UserStmts, v \in RoundVals : StmtBind(s, Array(<<v>>), Defined)
    \/ \E s \in UserStmts : StmtStep(s)
    \/ \E s \in UserStmts, v \in RoundVals : StmtGet(s, Array(<<v>>), Defined)
    \/ \E s \in UserStmts : StmtGet(s, NoParams, Defined)
    \/ \E s \in UserStmts : StmtReset(s, Defined)

SpecValues == Init /\ [][NextValues]_vars

C20_IntegerOrReal ==
    (/\ last.op \in {"bind", "get"}
     /\ last.pre.stmt # NULL
     /\ last.arg.t = "array"
     /\ last.arg.v[1].t \in {"boolean", "number", "bignumber", "fraction"}) =>
        IF last.arg.v[1].t = "fraction"
        THEN At("sqlite3_bind_int") = {} /\ Cardinality(At("sqlite3_bind_double")) = 1
        ELSE At("sqlite3_bind_double") = {} /\ Cardinality(At("sqlite3_bind_int")) = 1

(* -------------------------------- each -------------------------------- *)
(* each over a table of up to MaxRows rows and over SELECT ?, with and     *)
(* without parameters, with parameters that fail to bind, with a statement *)
(* that fails to compile or to step, with a callback that throws at its    *)
(* first or second call, with and without done.                            *)
EachKinds == {"select", "param", "constraint", "syntax"}

EachParams == {NoParams, Array(<<Val("string", 1)>>)}

NextEach ==
    \/ Run(1, <<"insert">>, NoParams)
    \/ \E k \in EachKinds, p \in EachParams, n \in 0 .. 2, d \in BOOLEAN :
           Each(1, <<k>>, p, n, d)

SpecEach == Init /\ [][NextEach]_vars

\* The rows callback was given, in the order of its calls.
Given == [i \in 1 .. Cardinality(At("callback")) |-> last.tr[Ascending(At("callback"))[i]].out]

\* Row r of a statement with the single column a, keyed by column name.
Keyed(r) == <<<<"a", r[1]>>>>

\* C17: each calls onRow once for every row of the statement, in row
\* order, with the row keyed by column name; it calls onDone once, after the
\* last onRow, exactly when the loop ended without an error (and onDone was
\* given); and when it returns or throws, the statement it prepared is
\* finalized and no longer in the registry.
C17_Each ==
    (last.op = "each") =>
        LET rows == RowsOf(last.arg[1], 1, last.arg[2], last.pre.view)
        IN  /\ Len(Given) <= Len(rows)
            /\ \A i \in DOMAIN Given : Given[i] = Keyed(rows[i])
            /\ Succeeded => Len(Given) = Len(rows)
            /\ Cardinality(At("done")) = IF Succeeded /\ last.arg[4] THEN 1 ELSE 0
            /\ \A d \in At("done") : \A i \in At("callback") : i < d
            /\ \A p \in Prepared :
                   Cardinality({j \in At("sqlite3_finalize") :
                                   p < j /\ last.tr[j].h = last.tr[p].out}) = 1
            /\ {sh \in StmtHandles : engine.stmts[sh].live} = last.pre.live
            /\ database[last.c].statements = last.pre.statements

\* each returned after two rows and onDone.
C17_Witness ==
    /\ last.op = "each"
    /\ Succeeded
    /\ Len(Given) = 2
    /\ At("done") # {}
    /\ Prepared # {}

(* -------------------------------- free -------------------------------- *)
(* MaxStmt Statement objects, prepared with and without a bound buffer,    *)
(* stepped, and freed once and again, while the engine gives the handle of *)
(* a finalized statement to the next statement prepared.                   *)
NextFree ==
    \/ \E p \in {NoParams, Array(<<Val("string", 1)>>)} : Prepare(1, <<"param">>, p, MaxStmt)
    \/ \E s \in UserStmts : StmtStep(s)
    \/ \E s \in UserStmts : StmtFree(s)

SpecFree == Init /\ [][NextFree]_vars

\* C18: free() on a live Statement object frees the buffers of its arena,
\* finalizes its handle exactly once, clears the handle and takes the
\* Statement object out of the registry of its Database object; free() on a
\* Statement object that was freed finalizes no statement, leaves the
\* registry as it is and throws nothing.
C18_Free ==
    (last.op = "free") =>
        LET s == last.s
            c == last.c
        IN  /\ Succeeded
            /\ statement[s].stmt = NULL
            /\ statement[s].allocatedmem = <<>>
            /\ runtime.heap = UNION {Arena(t) : t \in StmtIds}
            /\ IF last.pre.stmt # NULL
               THEN /\ Cardinality(At("sqlite3_finalize")) = 1
                    /\ \A j \in At("sqlite3_finalize") : last.tr[j].h = last.pre.stmt
                    /\ \A j \in At("_free") : \A k \in At("sqlite3_finalize") : j < k
                    /\ {sh \in StmtHandles : engine.stmts[sh].live}
                           = last.pre.live \ {last.pre.stmt}
                    /\ last.pre.stmt \in DOMAIN last.pre.statements
                    /\ database[c].statements = MapDel(last.pre.statements, last.pre.stmt)
               ELSE /\ \A j \in At("sqlite3_finalize") : last.tr[j].h = NULL
                    /\ {sh \in StmtHandles : engine.stmts[sh].live} = last.pre.live
                    /\ database[c].statements = last.pre.statements
                    /\ runtime.heap = last.pre.heap

\* free() was called again on a Statement object while another Statement
\* object was registered with a bound buffer.
C18_Witness ==
    /\ last.op = "free"
    /\ last.pre.stmt = NULL
    /\ last.pre.statements # EmptyMap
    /\ last.pre.heap # {}
    /\ last.pre.live # {}


(* ------------------------- values of no known type --------------------- *)
(* One statement with two parameters, bound, read and run with arrays of   *)
(* numbers, strings, plain objects, undefined and functions.               *)
NextTypes ==
    LET TypeVals == {Val("number", 1), Val("string", 1), Val("object", 1),
                     Val("undefined", 0), Val("function", 1)}
    IN  \/ \E p \in {NoParams} \cup Arrays({Val("number", 1), Val("object", 1)}, 1) :
               Prepare(1, <<"param2">>, p, 1)
        \/ \E s \in UserStmts, v \in Arrays(TypeVals, 2) : StmtBind(s, v, Defined)
        \/ \E s \in UserStmts : StmtStep(s)
        \/ \E s \in UserStmts, v \in {NoParams} \cup Arrays(TypeVals, 1) :
               StmtGet(s, v, Defined)
        \/ \E s \in UserStmts, v \in Arrays(TypeVals, 1) : StmtRun(s, v, Defined)
        \/ \E s \in UserStmts : StmtFree(s)

SpecTypes == Init /\ [][NextTypes]_vars

\* The positions of the array of the last call whose value is of none of
\* the types bindValue takes.
Unsupported ==
    {i \in DOMAIN last.arg.v :
        last.arg.v[i].t \in {"object", "undefined", "function"}}

\* The calls of the bind primitives of the engine in the last call.
BindCalls ==
    {i \in DOMAIN last.tr :
        last.tr[i].f \in {"sqlite3_bind_int", "sqlite3_bind_double",
                          "sqlite3_bind_text", "sqlite3_bind_blob"}}

\* C21: bind, get and run on a live Statement with an array holding a plain
\* object, undefined or a function throw the unknown-type error that carries
\* the description of the first such value; the bind primitives of the
\* engine were called for the values before it only, never for that value.
C21_UnsupportedType ==
    (/\ last.op \in {"bind", "get", "stmt.run"}
     /\ last.pre.stmt # NULL
     /\ last.arg.t = "array"
     /\ Unsupported # {})
        => /\ last.err = "Wrong API use : tried to bind a value of an unknown type ("
                             \o Describe(last.arg.v[Min(Unsupported)]) \o ")."
           /\ Cardinality(BindCalls) = Min(Unsupported) - 1

\* bind threw for a function given after a number that was bound.
C21_Witness ==
    /\ last.op = "bind"
    /\ last.pre.stmt # NULL
    /\ last.arg = Array(<<Val("number", 1), Val("function", 1)>>)
    /\ last.err = "Wrong API use : tried to bind a value of an unknown type (function () {})."
    /\ Cardinality(BindCalls) = 1

(* ------------------------ close and the file --------------------------- *)
(* Rows inserted inside and outside of transactions, then close(), close   *)
(* (true) or close(false); export() after it reopens the file that is left.*)
NextClose ==
    \/ \E k \in TxnKinds : Run(1, <<k>>, NoParams)
    \/ Exec(1, <<"select">>, NoParams)
    \/ \E unlink \in BOOLEAN : Close(1, unlink)
    \/ Close(1, DefaultUnlink)
    \/ Export(1)

SpecClose == Init /\ [][NextClose]_vars

NextChanges ==
    \/ \E k \in {"insert", "delete"} : Run(1, <<k>>, NoParams)
    \/ Exec(1, <<"select">>, NoParams)
    \/ Each(1, <<"select">>, NoParams, 0, FALSE)
    \/ \E p \in {NoParams, Array(<<Val("number", 1)>>)} : Prepare(1, <<"param">>, p, 1)
    \/ \E s \in UserStmts : StmtBind(s, Array(<<Val("number", 1)>>), Defined)
    \/ \E s \in UserStmts : StmtReset(s, Defined)
    \/ \E s \in UserStmts : StmtFree(s)
    \/ CreateFunction(1, "f", 0, Defined, 1)
    \/ Export(1)
    \/ GetRowsModified(1, Defined)

SpecChanges == Init /\ [][NextChanges]_vars

\* What getRowsModified() returns on Database object 1.
RowsModified == getRowsModified(World(Defined), 1).ret

\* C23: getRowsModified() returns the rows the most recent INSERT or DELETE
\* of the Database object changed: 1 after run of an INSERT, the rows of the
\* table after run of a DELETE, and what it returned before after every
\* other call (exec or each of a SELECT, prepare, bind, reset, free,
\* create_function, export, getRowsModified itself).
C23_RowsModified ==
    [][/\ (last'.op = "getRowsModified") => (last'.ret = RowsModified)
       /\ IF last'.op = "run" /\ last'.arg[1] = <<"insert">>
          THEN RowsModified' = 1
          ELSE IF last'.op = "run" /\ last'.arg[1] = <<"delete">>
          THEN RowsModified' = last'.pre.view
          ELSE RowsModified' = RowsModified]_vars

(* -------------------------- run with parameters ------------------------ *)
(* run with and without parameters on texts of one and of several          *)
(* statements that insert, delete and select rows, inside and outside of   *)
(* transactions.                                                           *)
NextRun ==
    \/ \E text \in Texts({"insert", "delete", "select", "begin", "commit"}, MaxText),
          p \in {NoParams, Array(<<>>)} : Run(1, text, p)
    \/ Exec(1, <<"select">>, NoParams)
    \/ GetRowsModified(1, Defined)

SpecRun == Init /\ [][NextRun]_vars

\* C24: run with parameters on an open Database object steps one statement
\* at most, and throws without stepping any when the text holds more than
\* one statement.
C24_RunOneStatement ==
    (/\ last.op = "run"
     /\ last.pre.db # NULL
     /\ last.arg[2].t = "array")
        => /\ Cardinality(At("sqlite3_step")) <= 1
           /\ Len(last.arg[1]) > 1 =>
                 /\ ~Succeeded
                 /\ At("sqlite3_step") = {}
                 /\ ViewOf(last.c) = last.pre.view

(* ------------------------ opening from bytes --------------------------- *)
(* A second Database object constructed without data, on the image of an  *)
(* empty database, on what export() of the first returned and on bytes     *)
(* that are no database image; rows inserted and read on both.             *)
NextOpen ==
    \/ \E d \in {NoData, Data(0), Data(NotADatabase), exported} : New(2, d)
    \/ \E c \in Conns : Run(c, <<"insert">>, NoParams)
    \/ \E c \in Conns : Exec(c, <<"select">>, NoParams)
    \/ Export(1)
    \/ \E c \in Conns : Close(c, FALSE)

SpecOpen == Init /\ [][NextOpen]_vars

\* C25: new Database({data}) with bytes that are no database image throws
\* 'file is not a database', and leaves no Database object with an open
\* connection on those bytes.
C25_OpenInvalid ==
    (/\ last.op = "new"
     /\ last.arg.given
     /\ last.arg.bytes = NotADatabase)
        => /\ last.err = "file is not a database"
           /\ ~database[last.c].constructed
           /\ At("sqlite3_close_v2") # {} \/ At("sqlite3_open") = {}

(* ------------------------------ bind(null) ----------------------------- *)
\* C26: bind(null) on a live Statement returns true and changes nothing: the
\* bindings of the statement, whether it has a row pending, the buffers of
\* the arena and the Statement object are as they were.
C26_BindNull ==
    [][(/\ last'.op = "bind"
        /\ last'.arg.t = "null"
        /\ statement[last'.s].stmt # NULL)
          => /\ last'.err = NoErr
             /\ last'.ret = TRUE
             /\ engine'.stmts = engine.stmts
             /\ statement' = statement
             /\ runtime'.heap = runtime.heap]_vars

(* ------------------------- status codes raised ------------------------- *)
(* Statements that step to a row, to their end and to an error, bound with *)
(* values within and beyond their parameters, read, reset, run and freed.  *)
NextStatus ==
    \/ \E k \in {"param", "insert", "constraint"} : Prepare(1, <<k>>, NoParams, 1)
    \/ \E s \in UserStmts, v \in Arrays({NullVal, Val("number", 1)}, 2) : StmtBind(s, v, Defined)
    \/ \E s \in UserStmts : StmtStep(s)
    \/ \E s \in UserStmts : StmtGet(s, NoParams, Defined)
    \/ \E s \in UserStmts : StmtRun(s, NoParams, Defined)
    \/ \E s \in UserStmts : StmtReset(s, Defined)
    \/ \E s \in UserStmts : StmtFree(s)

SpecStatus == Init /\ [][NextStatus]_vars

\* C27: no call reports a status code of the engine that is not success as
\* a boolean or drops it: reset, free and run, which return whether their
\* primitives answered success, never return false, and bind with a value at
\* a position the statement does not have throws.
C27_StatusRaised ==
    /\ (last.op \in {"reset", "free", "stmt.run"} /\ Succeeded) => last.ret = TRUE
    /\ (/\ last.op = "bind"
        /\ last.pre.stmt # NULL
        /\ last.arg.t = "array"
        /\ Len(last.arg.v) > Declared) => ~Succeeded

(* -------------------------------- query -------------------------------- *)
(* Rows inserted and deleted, inside and outside of transactions, and read *)
(* with exec, each and query.                                              *)
NextQuery ==
    \/ \E k \in {"insert", "delete", "begin", "commit", "rollback"} : Run(1, <<k>>, NoParams)
    \/ Exec(1, <<"select">>, NoParams)
    \/ Each(1, <<"select">>, NoParams, 0, FALSE)
    \/ CallQuery(1, <<"select">>)

SpecQuery == Init /\ [][NextQuery]_vars

\* C28: query of a SELECT on an open Database object returns every row of
\* the statement, in row order, each keyed by column name.
C28_Query ==
    (last.op = "query" /\ last.pre.db # NULL) =>
        LET rows == RowsOf(last.arg[1], 1, last.arg[2], last.pre.view)
        IN  /\ Succeeded
            /\ last.ret = [i \in DOMAIN rows |-> Keyed(rows[i])]

(* ------------------------- calls after close --------------------------- *)
(* Every public call of a Database object, before and after close().       *)
NextClosed ==
    \/ \E unlink \in BOOLEAN : Close(1, unlink)
    \/ Run(1, <<"insert">>, NoParams)
    \/ Run(1, <<"select">>, Array(<<>>))
    \/ Exec(1, <<"select">>, NoParams)
    \/ Prepare(1, <<"select">>, NoParams, 1)
    \/ Each(1, <<"select">>, NoParams, 0, FALSE)
    \/ Export(1)
    \/ \E ub \in UbCodes : GetRowsModified(1, ub)
    \/ \E ub \in UbCodes : CreateFunction(1, "f", 0, ub, 1)

SpecClosed == Init /\ [][NextClosed]_vars

\* C29: on a Database object that close() has closed, prepare, each, export,
\* getRowsModified, create_function, run and exec throw 'Database closed'
\* and have called nothing by then: no primitive of the engine, no
\* allocation of a slot, no access to the file.
C29_ClosedGuard ==
    (/\ last.op \in {"prepare", "each", "export", "getRowsModified",
                     "create_function", "run", "exec"}
     /\ last.pre.closed
     /\ last.pre.db = NULL)
        => /\ last.err = "Database closed"
           /\ last.tr = <<>>

(* ------------------------------ the cursor ----------------------------- *)
(* One statement, bound, stepped, reset and freed, and read with           *)
(* getNumber() and getNumber(0).                                           *)
NextCursor ==
    \/ Prepare(1, <<"param">>, NoParams, 1)
    \/ \E s \in UserStmts, v \in {NoParams} \cup Arrays({Val("number", 1), Val("fraction", 1)}, 1) :
           StmtBind(s, v, Defined)
    \/ \E s \in UserStmts : StmtStep(s)
    \/ \E s \in UserStmts : StmtReset(s, Defined)
    \/ \E s \in UserStmts, pos \in {Undefined, 0} : StmtGetNumber(s, pos)
    \/ \E s \in UserStmts : StmtGet(s, NoParams, Defined)
    \/ \E s \in UserStmts : StmtFree(s)

SpecCursor == Init /\ [][NextCursor]_vars

\* C30: the cursor of a live Statement is 1 after every bind, step and
\* reset; a read without a position advances it by one, a read with a
\* position leaves it as it was.
C30_Cursor ==
    [][/\ (last'.op \in {"bind", "step", "reset"} /\ statement[last'.s].stmt # NULL)
             => statement'[last'.s].pos = 1
       /\ (last'.op = "getNumber" /\ last'.arg = Undefined)
             => statement'[last'.s].pos = statement[last'.s].pos + 1
       /\ (last'.op = "getNumber" /\ last'.arg # Undefined)
             => statement'[last'.s].pos = statement[last'.s].pos]_vars

(* ------------------------ a Statement after an error ------------------- *)
(* An INSERT with two parameters, bound with arrays of up to three values  *)
(* (the third is out of range), stepped with and without the value its     *)
(* NOT NULL column needs, and run.                                         *)
NextRecover ==
    LET RecoverVals == {NullVal, Val("number", 1), Val("string", 1)}
    IN  \/ Prepare(1, <<"insertp">>, NoParams, 1)
        \/ \E s \in UserStmts, v \in Arrays(RecoverVals, 3) : StmtBind(s, v, Defined)
        \/ \E s \in UserStmts : StmtStep(s)
        \/ \E s \in UserStmts, v \in Arrays(RecoverVals, 1) : StmtRun(s, v, Defined)
        \/ \E s \in UserStmts : StmtReset(s, Defined)
        \/ Exec(1, <<"select">>, NoParams)

SpecRecover == Init /\ [][NextRecover]_vars

\* run(values) on Statement object s in the present state clears what was
\* bound before: it returns true, its one step reads the new values and
\* NULL for the parameters not named, and no buffer is left in the arena or
\* on the heap.
RunsWith(s, values) ==
    LET steps(w) == {i \in DOMAIN w.tr : w.tr[i].f = "sqlite3_step"}
        ok(w) ==
            /\ ~Failed(w)
            /\ w.ret = TRUE
            /\ Cardinality(steps(w)) = 1
            /\ \A i \in steps(w) : HostValues(w.tr[i].out) = Latest(values, 2)
            /\ w.statement[s].allocatedmem = <<>>
            /\ w.runtime.heap = {}
    IN  ok(run(World(Defined), s, values))

\* C31: after a bind or a step of a live Statement threw an error of the
\* engine, the Statement still holds its handle, the statement is not
\* finalized and is in the registry of its Database object, and run(values)
\* with valid values then succeeds with exactly the new values.
C31_NotSpoiled ==
    (/\ last.op \in {"bind", "step"}
     /\ last.pre.stmt # NULL
     /\ ~Succeeded) =>
        /\ statement[last.s].stmt = last.pre.stmt
        /\ IsLiveStmt(World(Defined), last.pre.stmt)
        /\ last.pre.stmt \in DOMAIN database[last.c].statements
        /\ database[last.c].statements[last.pre.stmt] = last.s
        /\ \A v \in {Array(<<Val("number", 1)>>), Array(<<Val("string", 1)>>)} :
               RunsWith(last.s, v)

\* bind threw for a third value after it bound a string and a number: a
\* buffer is in the arena, and run with a number succeeds.
C31_Witness ==
    /\ last.op = "bind"
    /\ last.err = "column index out of range"
    /\ last.arg.v[1] = Val("string", 1)
    /\ runtime.heap # {}
    /\ RunsWith(last.s, Array(<<Val("number", 1)>>))

(* --------------------------- exec and its text ------------------------- *)
(* exec on texts of statements with and without rows, empty statements and *)
(* statements that do not compile or whose step fails, in every order.     *)
NextEmpty ==
    \/ \E text \in Texts({"empty", "select", "insert", "constraint", "syntax"}, MaxText) :
           Exec(1, text, NoParams)
    \/ \E k \in {"insert", "delete"} : Run(1, <<k>>, NoParams)

SpecEmpty == Init /\ [][NextEmpty]_vars

\* The positions of the prepares of the last call, in order: the k-th is
\* the prepare of the k-th iteration of the loop of exec.
Iterations == Ascending(At("sqlite3_prepare_v2"))

NextNamed ==
    LET NamedVals == {NullVal, Val("number", 1), Val("string", 1)}
        Keys == {":a", ":b", ":x"}
        Objects ==
            {Object(e) : e \in {<<>>} \cup {<<<<k, v>>>> : k \in Keys, v \in NamedVals}
                 \cup {<<<<k[1], v>>, <<k[2], Val("string", 2)>>>> :
                          k \in {p \in Keys \X Keys : p[1] # p[2]}, v \in NamedVals}}
    IN  \/ \E k \in {"named", "param2"} : Prepare(1, <<k>>, NoParams, 1)
        \/ \E s \in UserStmts, v \in Objects : StmtBind(s, v, Defined)
        \/ \E s \in UserStmts : StmtStep(s)
        \/ \E s \in UserStmts : StmtGet(s, NoParams, Defined)
        \/ \E s \in UserStmts : StmtFree(s)

SpecNamed == Init /\ [][NextNamed]_vars

\* The lookups of the last call by name, in the order of the calls.
Lookups == Ascending(At("sqlite3_bind_parameter_index"))

\* The entries of the object of the last call whose lookup gave an index.
Resolved == {i \in DOMAIN Lookups : last.tr[Lookups[i]].out # 0}

\* C33: bind on a live Statement with an object looks every key up once, in
\* the order of the keys, and returns true without an exception; the engine
\* binds exactly the keys whose lookup gave a non-zero index, each at that
\* index with the value of the key, and the other parameters hold NULL; a
\* key whose lookup gave 0 causes no bind call and no allocation.
C33_BindFromObject ==
    (/\ last.op = "bind"
     /\ last.pre.stmt # NULL
     /\ last.arg.t = "object")
        => LET entries == last.arg.v
               bound == HostValues(engine.stmts[last.pre.stmt].bound)
           IN  /\ Succeeded /\ last.ret = TRUE
               /\ Len(Lookups) = Len(entries)
               /\ Cardinality(BindCalls) = Cardinality(Resolved)
               /\ \A n \in DOMAIN bound :
                      bound[n] =
                          IF \E i \in Resolved : last.tr[Lookups[i]].out = n
                          THEN entries[CHOOSE i \in Resolved :
                                           last.tr[Lookups[i]].out = n][2]
                          ELSE NullVal
               /\ Len(statement[last.s].allocatedmem) =
                      Cardinality({i \in Resolved : entries[i][2].t = "string"})
               /\ Cardinality(At("allocate")) =
                      Cardinality({i \in Resolved : entries[i][2].t = "string"})

\* bind took an object with a key the statement has and a key it has not,
\* both with a string: one bind call, one buffer.
C33_Witness ==
    /\ last.op = "bind" /\ last.arg.t = "object" /\ Succeeded
    /\ Len(last.arg.v) = 2
    /\ last.arg.v[1] = <<":x", Val("string", 1)>>
    /\ last.arg.v[2][1] = ":b"
    /\ Resolved = {2}
    /\ HostValues(engine.stmts[last.pre.stmt].bound) = <<NullVal, Val("string", 2)>>
    /\ Len(statement[last.s].allocatedmem) = 1

(* --------------------------- decoding a row --------------------------- *)
NextDecode ==
    LET DecodeVals == {NullVal, Val("number", 1), Val("fraction", 1), Val("string", 1),
                       Val("blob", 1)}
    IN  \/ \E k \in {"param2", "select"} : Prepare(1, <<k>>, NoParams, 1)
        \/ \E s \in UserStmts, v \in Arrays(DecodeVals, 2) : StmtBind(s, v, Defined)
        \/ \E s \in UserStmts : StmtStep(s)
        \/ \E s \in UserStmts, v \in {NoParams} \cup Arrays(DecodeVals, 1) :
               StmtGet(s, v, Defined)
        \/ \E s \in UserStmts : StmtReset(s, Defined)
        \/ \E s \in UserStmts : StmtFree(s)
        \/ Run(1, <<"insert">>, NoParams)

SpecDecode == Init /\ [][NextDecode]_vars

NextHeld ==
    LET HeldParams == {NoParams, Array(<<Val("string", 1)>>)}
    IN  \/ \E k \in {"select", "param"}, p \in HeldParams : Prepare(1, <<k>>, p, 1)
        \/ \E p \in HeldParams : Run(1, <<"param">>, p)
        \/ \E p \in HeldParams : Each(1, <<"select">>, p, 0, FALSE)
        \/ \E k \in {"select", "syntax"} : Exec(1, <<k>>, NoParams)
        \/ \E s \in UserStmts : StmtStep(s)
        \/ \E s \in UserStmts : StmtFree(s)
        \/ Export(1)
        \/ Close(1, TRUE)

SpecHeld == Init /\ [][NextHeld]_vars

\* C35: between public calls every statement handle of the engine that is
\* not finalized is a key of the statement registry of the Database object
\* whose connection it belongs to, and the Statement registered under it
\* holds it.
C35_HandlesHeld ==
    \A sh \in StmtHandles :
        engine.stmts[sh].live
            => \E c \in Conns :
                   /\ database[c].constructed
                   /\ database[c].db = engine.stmts[sh].db
                   /\ sh \in DOMAIN database[c].statements
                   /\ statement[database[c].statements[sh]].stmt = sh

\* prepare bound its parameter and returned: the handle is registered.
C35_Witness ==
    /\ last.op = "prepare" /\ Succeeded
    /\ last.arg[2] = Array(<<Val("string", 1)>>)
    /\ statement[last.s].stmt \in DOMAIN database[last.c].statements
    /\ engine.stmts[statement[last.s].stmt].live
    /\ C35_HandlesHeld

(* -------------------- no call on a closed connection ------------------ *)
(* Two Database objects on one file (the same dbfile): the close of one    *)
(* deletes the file the other reads and deletes in export and close.       *)
InitShared ==
    LET begin(w) ==
            /\ database = w.database
            /\ statement = w.statement
            /\ engine = w.engine
            /\ runtime = w.runtime
            /\ last = [op |-> "new", c |-> 1, s |-> TmpStmt, arg |-> DbFile(1),
                       err |-> NoErr, ret |-> NULL, tr |-> w.tr,
                       pre |-> [db |-> NULL, stmt |-> NULL, closed |-> FALSE,
                                prior |-> FALSE, handles |-> {}, live |-> {},
                                statements |-> EmptyMap, functions |-> EmptyMap,
                                heap |-> {}, view |-> 0, row |-> FALSE]]
    IN  /\ begin(constructor(BlankWorld, 1, DbFile(1)))
        /\ closed = [conns |-> {}, stmts |-> {}]
        /\ nextReg = 0
        /\ exported = NoData

NextShared ==
    \/ New(2, DbFile(1))
    \/ \E c \in Conns, unlink \in BOOLEAN : Close(c, unlink)
    \/ \E c \in Conns : Export(c)
    \/ \E c \in Conns, k \in {"insert", "select"} : Run(c, <<k>>, NoParams)
    \/ \E c \in Conns : Exec(c, <<"select">>, NoParams)

SpecShared == InitShared /\ [][NextShared]_vars

\* Position i of the trace tr is a call of a primitive on a connection
\* handle that is not open then: it was not open in engine record dbs when
\* the trace began and no earlier call of the trace opened it, or an earlier
\* call of the trace closed it and none opened it since.
OnClosedHandle(dbs, tr, i) ==
    LET h == tr[i].h
        opens == {j \in 1 .. (i - 1) : tr[j].f = "sqlite3_open" /\ tr[j].out = h}
        closes == {j \in 1 .. (i - 1) : tr[j].f = "sqlite3_close_v2" /\ tr[j].h = h}
    IN  /\ tr[i].f \in {"sqlite3_close_v2", "sqlite3_prepare_v2", "sqlite3_exec",
                        "sqlite3_errmsg", "sqlite3_changes",
                        "sqlite3_create_function_v2", "registerExtensionFunctions"}
        /\ h # NULL
        /\ IF opens = {}
           THEN closes # {} \/ dbs[h].state # "open"
           ELSE \E k \in closes : \A j \in opens : j < k

\* C36: no call passes to a primitive of the engine a connection handle
\* (other than the null pointer) that is not open: one that
\* sqlite3_close_v2 was given before, in this call or in an earlier one,
\* and that no sqlite3_open has produced since.
C36_NoUseAfterClose ==
    [][\A i \in DOMAIN last'.tr : ~OnClosedHandle(engine.dbs, last'.tr, i)]_vars

\* close closed the connection and deleted the file; export closed a
\* connection and opened the file again.
C36_Witness ==
    /\ last.op = "export" /\ Succeeded
    /\ At("sqlite3_close_v2") # {} /\ At("sqlite3_open") # {}
    /\ closed.conns # {}
    /\ \A i \in DOMAIN last.tr : last.tr[i].f = "sqlite3_close_v2" => last.tr[i].h = last.pre.db

(* ------------------ the extension functions of the engine ------------- *)
\* C37: the connection of every open Database object has the extension
\* functions of the engine registered (registerExtensionFunctions was
\* called on the handle the object holds).
C37_ExtensionsRegistered ==
    \A c \in Conns :
        (database[c].constructed /\ IsOpenDb(World(Defined), database[c].db))
            => engine.dbs[database[c].db].ext

\* After statements ran on the connection the constructor opened, the
\* extension functions are still registered on it.
C37_Witness ==
    /\ last.op = "run" /\ Succeeded
    /\ last.pre.db = database[1].db
    /\ IsOpenDb(World(Defined), database[1].db)
    /\ engine.dbs[database[1].db].ext
    /\ exported = NoData

(* --------------------- export and what a query sees ------------------- *)
\* C38: a query on the Database object right after export() has returned
\* gives the rows the same query gave right before the call.
C38_ExportKeepsContent ==
    (last.op = "export" /\ Succeeded /\ last.pre.db # NULL)
        => Query(last.c) = last.arg

\* export() of a database with a committed row: the query gives the row
\* before and after.
C38_Witness ==
    /\ last.op = "export" /\ Succeeded /\ last.pre.db # NULL
    /\ last.pre.view > 0
    /\ Len(last.arg) = 1
    /\ Query(last.c) = last.arg

(* ----------------- a callback of each that calls back ----------------- *)
NextReenter ==
    \/ Run(1, <<"insert">>, NoParams)
    \/ \E k \in {"select", "param"}, does \in {"close", "export", "free"}, done \in BOOLEAN :
           EachReentrant(1, <<k>>, does, done)
    \/ \E k \in {"select", "param"} : Prepare(1, <<k>>, NoParams, 1)
    \/ \E s \in UserStmts : StmtStep(s)
    \/ Exec(1, <<"select">>, NoParams)

SpecReenter == Init /\ [][NextReenter]_vars

\* The handle sqlite3_prepare_v2 gave the statement of the last call.
Iterated == last.tr[Min(At("sqlite3_prepare_v2"))].out

\* The calls of the last call that passed handle sh to a primitive that
\* takes a statement.
StmtCalls(sh) ==
    {i \in DOMAIN last.tr :
        /\ last.tr[i].h = sh
        /\ last.tr[i].f \in {"sqlite3_step", "sqlite3_reset", "sqlite3_clear_bindings",
                             "sqlite3_finalize", "sqlite3_data_count",
                             "sqlite3_column_name", "sqlite3_column",
                             "sqlite3_bind_parameter_index"}}

\* C39: when the callback of each, at its first call, closes or exports the
\* Database object or frees the statement of each, each throws "Statement
\* closed", calls the callback no second time and does not call done; the
\* handle of the statement is given to sqlite3_finalize once and to no
\* primitive after that.
C39_EachReentered ==
    (/\ last.op = "each"
     /\ Len(last.arg) = 3
     /\ At("callback") # {})
        => /\ last.err = "Statement closed"
           /\ Cardinality(At("callback")) = 1
           /\ At("done") = {}
           /\ Cardinality(At("sqlite3_finalize") \cap StmtCalls(Iterated)) = 1
           /\ \A i \in StmtCalls(Iterated) :
                  \A j \in At("sqlite3_finalize") \cap StmtCalls(Iterated) : i <= j
           /\ ~engine.stmts[Iterated].live

\* The callback closed the Database object at the first of two rows.
C39_Witness ==
    /\ last.op = "each" /\ Len(last.arg) = 3
    /\ last.arg[2] = "close" /\ last.arg[3] = TRUE
    /\ last.pre.view = 2
    /\ Cardinality(At("callback")) = 1
    /\ At("sqlite3_close_v2") # {}
    /\ last.err = "Statement closed"
    /\ database[last.c].db = NULL

(* ------------------- Database objects are isolated -------------------- *)
NextIsolated ==
    \/ \E d \in {NoData, DbFile(1)} : New(2, d)
    \/ \E c \in Conns : Close(c, DefaultUnlink)
    \/ \E c \in Conns : Export(c)
    \/ \E c \in Conns : Prepare(c, <<"param">>, Array(<<Val("string", 1)>>), MaxStmt)
    \/ \E c \in Conns : CreateFunction(c, "f", 0, Defined, 2)
    \/ \E s \in UserStmts : StmtFree(s)

SpecIsolated == InitShared /\ [][NextIsolated]_vars

\* The step leaves Database object d as it is: its fields (handle, statement
\* registry, function registry), the slots of its functions, and the fields
\* (handle, arena) and buffers of its Statement objects.
Untouched(d) ==
    /\ database'[d] = database[d]
    /\ \A sl \in SlotsOf(database[d].functions) : runtime'.table[sl] = runtime.table[sl]
    /\ \A s \in UserStmts :
           (statement[s].created /\ statement[s].db = d)
               => /\ statement'[s] = statement[s]
                  /\ \A i \in DOMAIN statement[s].allocatedmem :
                         statement[s].allocatedmem[i] \in runtime'.heap

\* C40: close, export, prepare, create_function and Statement.free on one
\* Database object leave every other Database object untouched: its handle,
\* its statement registry, its function registry and the slots of its
\* functions, and the handle and the arena of each of its Statement objects.
C40_Isolated ==
    [][last'.op \in {"close", "export", "prepare", "create_function", "free"}
           => \A d \in Conns \ {last'.c} : database[d].constructed => Untouched(d)]_vars

\* Database object 1 was closed while Database object 2 held a statement
\* with a bound string and a function.
C40_Witness ==
    /\ last.op = "close" /\ last.c = 1 /\ Succeeded
    /\ database[2].constructed
    /\ DOMAIN database[2].statements # {}
    /\ DOMAIN database[2].functions # {}
    /\ \E s \in UserStmts : statement[s].db = 2 /\ statement[s].allocatedmem # <<>>
    /\ IsOpenDb(World(Defined), database[2].db)

====
